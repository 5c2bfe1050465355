------------------------------- MODULE Receiver -------------------------------
(***************************************************************************)
(* The webhook receiver (internal/manager/receive.go).  Every event is     *)
(* handled by a goroutine of its own, call by call, while the branch moves *)
(* on.  What the handlers send is scheduled in the order of the channel,   *)
(* or dropped, and run later, with the Pipeline as it is by then; this     *)
(* part is told in single steps (modules Scheduler and Watcher have their  *)
(* calls).  One branch of one repository, whose commits are numbered as    *)
(* they are pushed.                                                        *)
(***************************************************************************)
EXTENDS Integers, Sequences

CONSTANTS MaxEvents,   \* bound: events in all
          MaxCommits,  \* bound: commits of the branch
          ChannelSize  \* capacity of the channel of triggered pipelines

ASSUME ReceiverAssumption ==
  MaxEvents \in Nat /\ MaxCommits \in Nat \ {0} /\ ChannelSize \in Nat \ {0}

Events  == 1..MaxEvents
Commits == 1..MaxCommits

\* "skip": the message asks to skip CI.
CommitKinds == {"plain", "skip"}

\* What Bitbucket sends: pushes and pull requests of the branch, pushes without a
\* change, tags, and what fails the check of its signature or is of another kind.
EventTypes == {"push", "pr", "no change", "tag", "rejected"}

VARIABLES
  commit,    \* the branch: kinds of its commits, the last one is the tip
  events,    \* the events so far: type, and commit (0: not told)
  at,        \* where the handler of an event is
  sha,       \* commit of the trigger
  config,    \* commit of which ods.yaml was read
  answer,    \* HTTP status, 0: none
  channel,   \* triggers in the channel of triggered pipelines
  definition, \* the trigger that the branch's Pipeline was last written for, 0: none
  run,       \* the pipeline run of a trigger
  executed,  \* the trigger whose definition that run executes, 0: not started
  built,     \* commit that it checked out, 0: not started
  unread,    \* history: events whose commit asks to be skipped, which could not be read
  dropped    \* history: triggers lost to a failing call or a restart

handlers == <<events, at, sha, config, answer>>
runs     == <<definition, run, executed, built>>
vars     == <<commit, handlers, channel, runs, unread, dropped>>

Places    == {"none", "validate", "commit", "skip", "config", "send", "done"}
RunStates == {"none", "pending", "started", "cancelled"}
Tip       == Len(commit)

Init ==
  /\ commit = <<"plain">>
  /\ events = << >>
  /\ at = [e \in Events |-> "none"]
  /\ sha = [e \in Events |-> 0]
  /\ config = [e \in Events |-> 0]
  /\ answer = [e \in Events |-> 0]
  /\ channel = << >>
  /\ definition = 0
  /\ run = [e \in Events |-> "none"]
  /\ executed = [e \in Events |-> 0]
  /\ built = [e \in Events |-> 0]
  /\ unread = {}
  /\ dropped = {}

-----------------------------------------------------------------------------
(* Developers and Bitbucket.  Webhooks arrive in any order, each handled in *)
(* its own time: the handler of a later event may be ahead.                 *)

Sent(type, c) ==
  /\ Len(events) < MaxEvents
  /\ events' = Append(events, [type |-> type, commit |-> c])
  /\ at' = [at EXCEPT ![Len(events) + 1] = "validate"]

Push(k) ==
  /\ Tip < MaxCommits
  /\ commit' = Append(commit, k)
  /\ Sent("push", Tip + 1)
  /\ UNCHANGED <<sha, config, answer, channel, runs, unread, dropped>>

\* A pull request event may come without its latest commit.
OtherEvent ==
  /\ \/ \E c \in {0, Tip} : Sent("pr", c)
     \/ \E t \in {"no change", "tag", "rejected"} : Sent(t, 0)
  /\ UNCHANGED <<commit, sha, config, answer, channel, runs, unread, dropped>>

-----------------------------------------------------------------------------
(* The handler of one event. *)

Goto(e, place) == at' = [at EXCEPT ![e] = place] /\ UNCHANGED answer
Reply(e, code) == at' = [at EXCEPT ![e] = "done"] /\ answer' = [answer EXCEPT ![e] = code]

(***************************************************************************)
(* Signature and type of the event.  A push without changes makes the      *)
(* handler panic: the connection is closed without an answer.              *)
(***************************************************************************)
Validate(e) ==
  /\ at[e] = "validate"
  /\ CASE events[e].type \in {"push", "pr"} -> Goto(e, "commit")
       [] events[e].type = "tag"             -> Reply(e, 418)
       [] events[e].type = "rejected"        -> Reply(e, 400)
       [] events[e].type = "no change"       -> Reply(e, 0)
  /\ UNCHANGED <<commit, events, sha, config, channel, runs, unread, dropped>>

\* The commit of the event, or the tip of the branch.
GetCommitSHA(e) ==
  /\ at[e] = "commit"
  /\ sha' = [sha EXCEPT ![e] = IF events[e].commit # 0 THEN events[e].commit ELSE Tip]
  /\ Goto(e, "skip")
  /\ UNCHANGED <<commit, events, config, channel, runs, unread, dropped>>

\* Mutant: the message of the tip is read.
ShouldSkipTip(e) == commit[Tip] = "skip"

ShouldSkip(e) == commit[sha[e]] = "skip"

CheckSkip(e) ==
  /\ at[e] = "skip"
  /\ IF ShouldSkip(e) THEN Reply(e, 418) ELSE Goto(e, "config")
  /\ UNCHANGED <<commit, events, sha, config, channel, runs, unread, dropped>>

\* A message that cannot be read does not skip anything.
SkipUnread(e) ==
  /\ at[e] = "skip"
  /\ unread' = IF ShouldSkip(e) THEN unread \cup {e} ELSE unread
  /\ Goto(e, "config")
  /\ UNCHANGED <<commit, events, sha, config, channel, runs, dropped>>

\* ods.yaml is read at the ref of the event, that is at the tip by now.
GetODSConfig(e) == Tip

\* The open pull request of the commit is looked up, the environment selected.
Configure(e) ==
  /\ at[e] = "config"
  /\ config' = [config EXCEPT ![e] = GetODSConfig(e)]
  /\ Goto(e, "send")
  /\ UNCHANGED <<commit, events, sha, channel, runs, unread, dropped>>

\* A call to Bitbucket fails, or ods.yaml maps the branch to an environment that it
\* does not define: the event is answered with an error and gone.
CallFails(e) ==
  /\ \/ at[e] = "commit" /\ events[e].commit = 0
     \/ at[e] = "config"
  /\ Reply(e, 500)
  /\ UNCHANGED <<commit, events, sha, config, channel, runs, unread, dropped>>

\* Mutant: the channel has no capacity.
SentToChannelUnbounded(e) == channel' = Append(channel, e)

\* Mutant: a full channel drops the trigger.
SentToChannelOrDropped(e) ==
  channel' = IF Len(channel) < ChannelSize THEN Append(channel, e) ELSE channel

SentToChannel(e) == Len(channel) < ChannelSize /\ channel' = Append(channel, e)

\* The handler waits for room in the channel, and answers at once.
Send(e) ==
  /\ at[e] = "send"
  /\ SentToChannel(e)
  /\ Reply(e, 200)
  /\ UNCHANGED <<commit, events, sha, config, runs, unread, dropped>>

Handle(e) == Validate(e) \/ GetCommitSHA(e) \/ CheckSkip(e) \/ Configure(e) \/ Send(e)

-----------------------------------------------------------------------------
(* What becomes of a trigger. *)

WritePipeline(e) == definition' = e
CreateRun(e)     == run' = [run EXCEPT ![e] = "pending"]

(***************************************************************************)
(* The Pipeline is written, then the run is created.  Any call may fail,   *)
(* with or without effect: the error is logged and the trigger dropped.    *)
(***************************************************************************)
Schedule ==
  /\ channel # << >>
  /\ channel' = Tail(channel)
  /\ LET e == Head(channel) IN
     \/ WritePipeline(e) /\ CreateRun(e) /\ UNCHANGED dropped
     \/ /\ dropped' = dropped \cup {e}
        /\ \/ UNCHANGED <<definition, run>>
           \/ WritePipeline(e) /\ UNCHANGED run
           \/ WritePipeline(e) /\ CreateRun(e)
  /\ UNCHANGED <<commit, handlers, executed, built, unread>>

\* Mutant: the commit of the event is checked out.
RevisionOfEvent(e) == sha[e]

\* The run is given the ref of the event, not its commit.
Revision(e) == Tip

(***************************************************************************)
(* A run refers to its Pipeline by name: it executes what the last trigger *)
(* of the branch has written, which need not be its own.                   *)
(***************************************************************************)
StartRun(e) ==
  /\ run[e] = "pending"
  /\ run' = [run EXCEPT ![e] = "started"]
  /\ executed' = [executed EXCEPT ![e] = definition]
  /\ built' = [built EXCEPT ![e] = Revision(e)]
  /\ UNCHANGED <<commit, handlers, channel, definition, unread, dropped>>

\* A user cancels a run that is pending.
CancelRun(e) ==
  /\ run[e] = "pending"
  /\ run' = [run EXCEPT ![e] = "cancelled"]
  /\ UNCHANGED <<commit, handlers, channel, definition, executed, built, unread, dropped>>

Elements(s) == {s[i] : i \in DOMAIN s}
Active(e)   == at[e] \notin {"none", "done"}

\* The manager restarts: handlers are gone with what they have read, the channel is empty.
Restart ==
  /\ at' = [e \in Events |-> IF Active(e) THEN "done" ELSE at[e]]
  /\ sha' = [e \in Events |-> IF Active(e) THEN 0 ELSE sha[e]]
  /\ config' = [e \in Events |-> IF Active(e) THEN 0 ELSE config[e]]
  /\ channel' = << >>
  /\ dropped' = dropped \cup Elements(channel)
  /\ UNCHANGED <<commit, events, answer, runs, unread>>

Next ==
  \/ \E k \in CommitKinds : Push(k)
  \/ OtherEvent
  \/ \E e \in Events : Handle(e) \/ SkipUnread(e) \/ CallFails(e)
  \/ Schedule
  \/ \E e \in Events : StartRun(e) \/ CancelRun(e)
  \/ Restart

(***************************************************************************)
(* Handlers and the scheduler are goroutines that go on; that the watcher  *)
(* starts the runs it knows of, as long as its calls succeed, is what      *)
(* PipelineManager shows.  Of a run whose trigger was dropped it may never *)
(* hear.                                                                   *)
(***************************************************************************)
StartAnnounced(e) == e \notin dropped /\ StartRun(e)

Fairness == /\ \A e \in Events : WF_vars(Handle(e)) /\ WF_vars(StartAnnounced(e))
            /\ WF_vars(Schedule)

Spec == Init /\ [][Next]_vars /\ Fairness

-----------------------------------------------------------------------------
(* Properties. *)

TypeOK ==
  /\ commit \in Seq(CommitKinds) /\ Len(commit) \in Commits
  /\ events \in Seq([type : EventTypes, commit : 0..MaxCommits])
  /\ at \in [Events -> Places]
  /\ sha \in [Events -> 0..Tip]
  /\ config \in [Events -> 0..Tip]
  /\ answer \in [Events -> {0, 200, 400, 418, 500}]
  /\ channel \in Seq(Events) /\ Len(channel) <= ChannelSize
  /\ definition \in {0} \cup Events
  /\ run \in [Events -> RunStates]
  /\ executed \in [Events -> {0} \cup Events]
  /\ built \in [Events -> 0..Tip]
  /\ unread \subseteq Events /\ dropped \subseteq Events

Distinct(s) == \A i, j \in DOMAIN s : s[i] = s[j] => i = j
Triggers    == Elements(channel) \cup {e \in Events : run[e] # "none"}

(***************************************************************************)
(* A trigger's configuration is never older than its commit.  What a run   *)
(* executes need not be the definition of its own trigger, and may even be *)
(* older than it, where a handler was overtaken; but it is the definition  *)
(* of some trigger, and never newer than the code that is checked out.     *)
(***************************************************************************)
ConfigBetween ==
  /\ \A e \in Triggers : 0 < sha[e] /\ sha[e] <= config[e]
  /\ \A e \in Events : run[e] = "started" =>
       LET d == executed[e] IN
         d \in Events /\ 0 < sha[d] /\ sha[d] <= config[d] /\ config[d] <= built[e]

(***************************************************************************)
(* An event that is answered with 200, and no other, has a trigger: in the *)
(* channel, once, or scheduled to a run, or lost to a failing call of the  *)
(* scheduler or a restart.  What is in the channel is neither run nor lost *)
(* before: handlers, however many wait, and the scheduler lose nothing     *)
(* between them and run nothing twice.                                     *)
(***************************************************************************)
TriggeredOnce ==
  /\ Triggers \cup dropped = {e \in Events : answer[e] = 200}
  /\ Distinct(channel)
  /\ \A e \in Elements(channel) : run[e] = "none" /\ e \notin dropped

\* A commit that asks to be skipped triggers a run only if its message was not read.
SkippedNotTriggered ==
  \A e \in Triggers : commit[sha[e]] = "skip" => e \in unread

(***************************************************************************)
(* A pushed commit that does not ask to be skipped is eventually part of   *)
(* what a run checks out, however many handlers wait for the channel;      *)
(* unless its event was answered with an error, its handler cut off by a   *)
(* restart, its trigger dropped or its run cancelled.  (Events are bounded *)
(* in number, and each of these stays true.)                               *)
(***************************************************************************)
PushedCommit(e) == IF e \in DOMAIN events /\ events[e].type = "push"
                   THEN events[e].commit ELSE 0
Pushed(e)  == PushedCommit(e) \in {c \in DOMAIN commit : commit[c] # "skip"}
Covered(e) == \E d \in Events : built[d] >= PushedCommit(e)
Forgone(e) == \/ answer[e] = 500
              \/ at[e] = "done" /\ answer[e] = 0
              \/ e \in dropped
              \/ run[e] = "cancelled"
PushBuilt  == <>[](\A e \in Events : Pushed(e) => Covered(e) \/ Forgone(e))
=============================================================================
