---------------------------- MODULE ReceiverProofs ----------------------------
(***************************************************************************)
(* Proofs about the webhook receiver: its safety properties hold for any   *)
(* number of events and commits and any capacity of the channel.           *)
(***************************************************************************)
EXTENDS Receiver, TLAPS

USE DEF vars, handlers, runs

-----------------------------------------------------------------------------
(* Queues without repetitions. *)

LEMMA AppendDistinct ==
  ASSUME NEW S, NEW q \in Seq(S), NEW x \in S
  PROVE  /\ Append(q, x) \in Seq(S) /\ Len(Append(q, x)) = Len(q) + 1
         /\ Elements(Append(q, x)) = Elements(q) \cup {x}
         /\ Distinct(q) /\ x \notin Elements(q) => Distinct(Append(q, x))
  <1>0. Len(q) \in Nat /\ Append(q, x) \in Seq(S)
    OBVIOUS
  <1>1. PICK n \in Nat, a \in Seq(S) : n = Len(q) /\ a = Append(q, x)
    BY <1>0
  <1>2. /\ DOMAIN q = 1..n /\ DOMAIN a = 1..(n + 1) /\ Len(a) = n + 1
        /\ a[n + 1] = x /\ \A i \in 1..n : a[i] = q[i]
    BY <1>1
  <1>3. Elements(a) = Elements(q) \cup {x}
    BY <1>2 DEF Elements
  <1>4. ASSUME Distinct(q), x \notin Elements(q) PROVE Distinct(a)
    <2>1. \A i \in 1..n : a[i] # x
      BY <1>2, <1>4 DEF Elements
    <2>2. \A i \in DOMAIN a : i \in 1..n \/ i = n + 1
      BY <1>2
    <2>3. QED
      BY <1>2, <1>4, <2>1, <2>2 DEF Distinct
  <1>5. QED
    BY <1>1, <1>2, <1>3, <1>4

LEMMA TailDistinct ==
  ASSUME NEW S, NEW q \in Seq(S), q # << >>
  PROVE  /\ Head(q) \in S /\ Tail(q) \in Seq(S) /\ Len(Tail(q)) <= Len(q)
         /\ Elements(q) = Elements(Tail(q)) \cup {Head(q)}
         /\ Distinct(q) => Distinct(Tail(q)) /\ Head(q) \notin Elements(Tail(q))
  <1>0. Len(q) \in Nat /\ Tail(q) \in Seq(S)
    OBVIOUS
  <1>1. PICK n \in Nat, t \in Seq(S) : n = Len(q) /\ t = Tail(q)
    BY <1>0
  <1>2. /\ n # 0 /\ Head(q) = q[1] /\ Head(q) \in S
        /\ DOMAIN q = 1..n /\ DOMAIN t = 1..(n - 1) /\ Len(t) = n - 1
        /\ \A i \in 1..(n - 1) : t[i] = q[i + 1]
    BY <1>1
  <1>3. Elements(q) = Elements(t) \cup {Head(q)}
    <2>1. \A i \in 1..n : i = 1 \/ (i - 1 \in 1..(n - 1) /\ (i - 1) + 1 = i)
      BY <1>2
    <2>2. \A x \in Elements(q) : x \in Elements(t) \cup {Head(q)}
      <3> SUFFICES ASSUME NEW i \in 1..n PROVE q[i] \in Elements(t) \cup {Head(q)}
        BY <1>2 DEF Elements
      <3>1. CASE i = 1
        BY <1>2, <3>1
      <3>2. CASE i # 1
        <4>1. i - 1 \in 1..(n - 1) /\ t[i - 1] = q[i]
          BY <1>2, <2>1, <3>2
        <4>2. QED
          BY <1>2, <4>1 DEF Elements
      <3>3. QED
        BY <3>1, <3>2
    <2>3. \A x \in Elements(t) : x \in Elements(q)
      <3> SUFFICES ASSUME NEW i \in 1..(n - 1) PROVE t[i] \in Elements(q)
        BY <1>2 DEF Elements
      <3>1. i + 1 \in DOMAIN q /\ t[i] = q[i + 1]
        BY <1>2
      <3>2. QED
        BY <3>1 DEF Elements
    <2>4. Head(q) \in Elements(q)
      <3>1. 1 \in DOMAIN q
        BY <1>2
      <3>2. QED
        BY <1>2, <3>1 DEF Elements
    <2>5. QED
      BY <2>2, <2>3, <2>4
  <1>4. ASSUME Distinct(q) PROVE Distinct(t) /\ Head(q) \notin Elements(t)
    <2>1. \A i \in 1..(n - 1) : i + 1 \in 1..n /\ i + 1 # 1
      BY <1>2
    <2>2. ASSUME NEW i \in 1..(n - 1), NEW j \in 1..(n - 1), t[i] = t[j] PROVE i = j
      <3>1. q[i + 1] = q[j + 1]
        BY <1>2, <2>2
      <3>2. i + 1 \in DOMAIN q /\ j + 1 \in DOMAIN q
        BY <1>2, <2>1
      <3>3. i + 1 = j + 1
        BY <1>4, <3>1, <3>2 DEF Distinct
      <3>4. QED
        BY <3>3
    <2>3. Distinct(t)
      BY <1>2, <2>2 DEF Distinct
    <2>4. 1 \in 1..n
      BY <1>2
    <2>5. \A i \in 1..(n - 1) : t[i] # q[1]
      BY <1>2, <1>4, <2>1, <2>4 DEF Distinct
    <2>6. QED
      BY <1>2, <2>3, <2>5 DEF Elements
  <1>5. QED
    BY <1>1, <1>2, <1>3, <1>4

-----------------------------------------------------------------------------
(* The inductive invariant: what a handler has established by the time it  *)
(* gets to one of its calls stays true while the branch moves on.          *)

EventsKnown ==
  /\ \A e \in DOMAIN events : events[e].commit <= Tip
  /\ \A e \in Events : at[e] # "none" => e \in DOMAIN events

HandlerOf(e) ==
  /\ at[e] # "done" => answer[e] = 0
  /\ at[e] \in {"skip", "config", "send"} \/ answer[e] = 200 => sha[e] > 0
  /\ at[e] \in {"config", "send"} \/ answer[e] = 200 => (commit[sha[e]] = "skip" => e \in unread)
  /\ at[e] = "send" \/ answer[e] = 200 => sha[e] <= config[e]
  /\ built[e] # 0 => config[e] <= built[e]

(* What the Pipeline has been written for, and what a run has made of it.  *)
RunOf(e) ==
  /\ built[e] # 0 <=> run[e] = "started"
  /\ run[e] # "none" => definition # 0
  /\ run[e] = "started" => executed[e] # 0 /\ answer[executed[e]] = 200
                             /\ config[executed[e]] <= built[e]

RunsKnown ==
  /\ definition # 0 => answer[definition] = 200
  /\ \A e \in Events : RunOf(e)

ReceiverInv ==
  TypeOK /\ EventsKnown /\ TriggeredOnce /\ RunsKnown /\ \A e \in Events : HandlerOf(e)

Event == [type : EventTypes, commit : 0..MaxCommits]

LEMMA ReceiverInit == Init => ReceiverInv
  <1> SUFFICES ASSUME Init PROVE ReceiverInv
    OBVIOUS
  <1>1. commit \in Seq(CommitKinds) /\ Len(commit) = 1 /\ 1 \in Commits
    BY ReceiverAssumption DEF Init, CommitKinds, Commits
  <1>2. events \in Seq(Event) /\ channel \in Seq(Events)
        /\ Len(channel) = 0 /\ DOMAIN events = {} /\ DOMAIN channel = {}
    BY DEF Init
  <1>3. TypeOK
    BY <1>1, <1>2, ReceiverAssumption DEF Init, TypeOK, Tip, Places, RunStates, Event
  <1>4. Elements(channel) = {} /\ Distinct(channel)
    BY <1>2 DEF Elements, Distinct
  <1>5. TriggeredOnce
    BY <1>4 DEF Init, TriggeredOnce, Triggers
  <1>6. EventsKnown /\ RunsKnown /\ \A e \in Events : HandlerOf(e)
    BY <1>2 DEF Init, EventsKnown, RunsKnown, RunOf, HandlerOf
  <1>7. QED
    BY <1>3, <1>5, <1>6 DEF ReceiverInv

(* A step that does not change what is triggered.                          *)
LEMMA SameTriggers ==
  ASSUME TriggeredOnce, UNCHANGED <<channel, run, dropped>>,
         \A e \in Events : answer'[e] = 200 <=> answer[e] = 200
  PROVE  TriggeredOnce'
  BY DEF TriggeredOnce, Triggers, Elements, Distinct

(* What has been answered, and read, for a trigger stays as it is.         *)
LEMMA SameRuns ==
  ASSUME TypeOK, RunsKnown, UNCHANGED runs,
         \A e \in Events : answer[e] = 200 => answer'[e] = 200 /\ config'[e] = config[e]
  PROVE  RunsKnown'
  <1>1. definition # 0 => definition \in Events
    BY DEF TypeOK
  <1>2. \A e \in Events : executed[e] # 0 => executed[e] \in Events
    BY DEF TypeOK
  <1>3. QED
    BY <1>1, <1>2 DEF RunsKnown, RunOf

(* The branch, and the events, as new ones arrive.                         *)
LEMMA SentEffect ==
  ASSUME ReceiverInv, NEW type \in EventTypes, NEW c \in 0..MaxCommits, Sent(type, c)
  PROVE  /\ events' \in Seq(Event) /\ at' \in [Events -> Places]
         /\ \A d \in DOMAIN events' : events'[d].commit = c \/
              (d \in DOMAIN events /\ events'[d] = events[d])
         /\ \A d \in Events : at'[d] # "none" => d \in DOMAIN events'
         /\ \A d \in Events : at'[d] = at[d] \/ (at'[d] = "validate" /\ at[d] = "none")
  <1>1. events \in Seq(Event) /\ at \in [Events -> Places]
    BY DEF ReceiverInv, TypeOK, Event
  <1>2. PICK n \in Nat : n = Len(events)
    BY <1>1
  <1>3. PICK new \in Event : new = [type |-> type, commit |-> c]
    BY DEF Event
  <1>4. /\ events' = Append(events, new) /\ at' = [at EXCEPT ![n + 1] = "validate"]
        /\ n < MaxEvents
    BY <1>2, <1>3 DEF Sent
  <1>5. /\ events' \in Seq(Event) /\ DOMAIN events = 1..n /\ DOMAIN events' = 1..(n + 1)
        /\ events'[n + 1] = new /\ \A i \in 1..n : events'[i] = events[i]
    BY <1>1, <1>2, <1>4
  <1>6. at[n + 1] = "none" /\ n + 1 \in Events
    <2>1. n + 1 \in Events
      BY <1>4, ReceiverAssumption DEF Events
    <2>2. n + 1 \notin DOMAIN events
      BY <1>5
    <2>3. QED
      BY <2>1, <2>2 DEF ReceiverInv, EventsKnown
  <1>7. at' \in [Events -> Places] /\ at'[n + 1] = "validate"
        /\ \A d \in Events \ {n + 1} : at'[d] = at[d]
    BY <1>1, <1>4, <1>6 DEF Places
  <1>8. \A d \in 1..(n + 1) : d \in 1..n \/ d = n + 1
    OBVIOUS
  <1>9. \A d \in Events : at'[d] # "none" => d \in DOMAIN events'
    <2> SUFFICES ASSUME NEW d \in Events, at'[d] # "none" PROVE d \in 1..(n + 1)
      BY <1>5
    <2>1. d = n + 1 \/ d \in 1..n
      BY <1>5, <1>7 DEF ReceiverInv, EventsKnown
    <2>2. QED
      BY <2>1
  <1>10. \A d \in DOMAIN events' : events'[d].commit = c \/
           (d \in DOMAIN events /\ events'[d] = events[d])
    BY <1>3, <1>5, <1>8
  <1>11. QED
    BY <1>5, <1>6, <1>7, <1>9, <1>10

(* Which event is new, and that nobody has handled it.                     *)
LEMMA SentArrival ==
  ASSUME ReceiverInv, NEW type \in EventTypes, NEW c \in 0..MaxCommits, Sent(type, c),
         NEW d \in DOMAIN events'
  PROVE  \/ d \in DOMAIN events /\ events'[d] = events[d] /\ at'[d] = at[d]
         \/ events'[d] = [type |-> type, commit |-> c] /\ at'[d] = "validate" /\ at[d] = "none"
  <1>1. events \in Seq(Event) /\ at \in [Events -> Places]
    BY DEF ReceiverInv, TypeOK, Event
  <1>2. PICK n \in Nat : n = Len(events)
    BY <1>1
  <1>3. PICK new \in Event : new = [type |-> type, commit |-> c]
    BY DEF Event
  <1>4. /\ events' = Append(events, new) /\ at' = [at EXCEPT ![n + 1] = "validate"]
        /\ n < MaxEvents
    BY <1>2, <1>3 DEF Sent
  <1>5. /\ DOMAIN events = 1..n /\ DOMAIN events' = 1..(n + 1)
        /\ events'[n + 1] = new /\ \A i \in 1..n : events'[i] = events[i]
    BY <1>1, <1>2, <1>4
  <1>6. 1..(n + 1) \subseteq Events
    BY <1>4, ReceiverAssumption DEF Events
  <1>7. CASE d = n + 1
    <2>1. n + 1 \notin DOMAIN events /\ n + 1 \in Events
      BY <1>5, <1>6
    <2>2. at[n + 1] = "none" /\ at'[n + 1] = "validate"
      BY <1>1, <1>4, <2>1 DEF ReceiverInv, EventsKnown
    <2>3. QED
      BY <1>3, <1>5, <1>7, <2>2
  <1>8. CASE d # n + 1
    <2>1. d \in 1..n /\ d \in Events
      BY <1>5, <1>6, <1>8
    <2>2. at'[d] = at[d]
      BY <1>1, <1>4, <1>8, <2>1
    <2>3. QED
      BY <1>5, <2>1, <2>2
  <1>9. QED
    BY <1>7, <1>8

LEMMA ReceiverPush ==
  ASSUME ReceiverInv, NEW k \in CommitKinds, Push(k)
  PROVE  ReceiverInv'
  <1>0. TypeOK /\ EventsKnown /\ TriggeredOnce /\ RunsKnown
    BY DEF ReceiverInv
  <1>1. /\ Tip < MaxCommits /\ commit' = Append(commit, k) /\ Sent("push", Tip + 1)
        /\ UNCHANGED <<sha, config, answer, channel, runs, unread, dropped>>
    BY DEF Push
  <1>2. PICK m \in Nat : m = Tip /\ m + 1 \in Commits
    BY <1>0, <1>1, ReceiverAssumption DEF TypeOK, Commits, Tip
  <1>3. /\ commit' \in Seq(CommitKinds) /\ Len(commit') = m + 1
        /\ \A i \in 1..m : commit'[i] = commit[i]
    BY <1>0, <1>1, <1>2 DEF TypeOK, Tip
  <1>4. Tip' = m + 1
    BY <1>3 DEF Tip
  <1>5. /\ events' \in Seq(Event) /\ at' \in [Events -> Places]
        /\ \A d \in DOMAIN events' : events'[d].commit = m + 1 \/
             (d \in DOMAIN events /\ events'[d] = events[d])
        /\ \A d \in Events : at'[d] # "none" => d \in DOMAIN events'
        /\ \A d \in Events : at'[d] = at[d] \/ (at'[d] = "validate" /\ at[d] = "none")
    <2>1. "push" \in EventTypes /\ m + 1 \in 0..MaxCommits
      BY <1>2, ReceiverAssumption DEF EventTypes, Commits
    <2>2. QED
      BY <1>1, <1>2, <2>1, SentEffect
  <1>6. 0..m \subseteq 0..(m + 1)
    OBVIOUS
  <1>7. TypeOK'
    BY <1>0, <1>1, <1>2, <1>3, <1>4, <1>5, <1>6 DEF TypeOK, Event
  <1>8. EventsKnown'
    <2>1. ASSUME NEW d \in DOMAIN events' PROVE events'[d].commit <= m + 1
      <3>1. CASE events'[d].commit = m + 1
        BY <3>1
      <3>2. CASE d \in DOMAIN events /\ events'[d] = events[d]
        <4>0. events \in Seq(Event)
          BY <1>0 DEF TypeOK, Event
        <4>1. events[d].commit <= m /\ events[d] \in Event
          BY <1>0, <1>2, <3>2, <4>0 DEF EventsKnown
        <4>2. PICK c \in 0..MaxCommits : c = events[d].commit
          BY <4>1 DEF Event
        <4>3. c <= m + 1
          BY <4>1, <4>2, ReceiverAssumption
        <4>4. QED
          BY <3>2, <4>2, <4>3
      <3>3. QED
        BY <1>5, <3>1, <3>2
    <2>2. QED
      BY <1>4, <1>5, <2>1 DEF EventsKnown
  <1>9. TriggeredOnce' /\ RunsKnown'
    BY <1>0, <1>1, SameTriggers, SameRuns
  <1>10. ASSUME NEW e \in Events PROVE HandlerOf(e)'
    <2>1. HandlerOf(e)
      BY DEF ReceiverInv
    <2>2. sha[e] > 0 => commit'[sha[e]] = commit[sha[e]]
      <3>1. sha[e] \in 0..m
        BY <1>0, <1>2 DEF TypeOK
      <3>2. QED
        BY <1>3, <3>1
    <2>3. at'[e] = at[e] \/ (at'[e] = "validate" /\ at[e] = "none")
      BY <1>5
    <2>4. UNCHANGED <<sha, config, answer, built, unread>>
      BY <1>1
    <2>5. QED
      BY <2>1, <2>2, <2>3, <2>4 DEF HandlerOf
  <1>11. QED
    BY <1>7, <1>8, <1>9, <1>10 DEF ReceiverInv

LEMMA ReceiverOther ==
  ASSUME ReceiverInv, OtherEvent
  PROVE  ReceiverInv'
  <1>0. TypeOK /\ EventsKnown /\ TriggeredOnce /\ RunsKnown
    BY DEF ReceiverInv
  <1>1. UNCHANGED <<commit, sha, config, answer, channel, runs, unread, dropped>>
    BY DEF OtherEvent
  <1>2. PICK m \in Nat : m = Tip /\ m = Len(commit) /\ m <= MaxCommits
    BY <1>0, ReceiverAssumption DEF TypeOK, Commits, Tip
  <1>3. PICK type \in EventTypes, c \in {0, m} : Sent(type, c)
    BY <1>2 DEF OtherEvent, EventTypes
  <1>4. c \in 0..MaxCommits /\ c <= m
    BY <1>2, ReceiverAssumption
  <1>5. /\ events' \in Seq(Event) /\ at' \in [Events -> Places]
        /\ \A d \in DOMAIN events' : events'[d].commit = c \/
             (d \in DOMAIN events /\ events'[d] = events[d])
        /\ \A d \in Events : at'[d] # "none" => d \in DOMAIN events'
        /\ \A d \in Events : at'[d] = at[d] \/ (at'[d] = "validate" /\ at[d] = "none")
    BY <1>3, <1>4, SentEffect
  <1>6. Tip' = m
    BY <1>1, <1>2 DEF Tip
  <1>7. TypeOK'
    BY <1>0, <1>1, <1>2, <1>5, <1>6 DEF TypeOK, Event
  <1>8. EventsKnown'
    <2>1. \A d \in DOMAIN events' : events'[d].commit <= m
      BY <1>0, <1>2, <1>4, <1>5 DEF EventsKnown
    <2>2. QED
      BY <1>5, <1>6, <2>1 DEF EventsKnown
  <1>9. TriggeredOnce' /\ RunsKnown'
    BY <1>0, <1>1, SameTriggers, SameRuns
  <1>10. ASSUME NEW e \in Events PROVE HandlerOf(e)'
    <2>1. HandlerOf(e)
      BY DEF ReceiverInv
    <2>2. at'[e] = at[e] \/ (at'[e] = "validate" /\ at[e] = "none")
      BY <1>5
    <2>3. QED
      BY <1>1, <2>1, <2>2 DEF HandlerOf
  <1>11. QED
    BY <1>7, <1>8, <1>9, <1>10 DEF ReceiverInv

-----------------------------------------------------------------------------
(* The calls of a handler.  Each leaves the other handlers, and what they  *)
(* are about, alone.                                                       *)

LEMMA GotoEffect ==
  ASSUME ReceiverInv, NEW e \in Events, NEW place \in Places, Goto(e, place)
  PROVE  /\ at' \in [Events -> Places] /\ at'[e] = place
         /\ \A d \in Events \ {e} : at'[d] = at[d]
         /\ answer' = answer
  BY DEF ReceiverInv, TypeOK, Goto

LEMMA ReplyEffect ==
  ASSUME ReceiverInv, NEW e \in Events, NEW code \in {0, 200, 400, 418, 500}, Reply(e, code)
  PROVE  /\ at' \in [Events -> Places] /\ at'[e] = "done"
         /\ \A d \in Events \ {e} : at'[d] = at[d] /\ answer'[d] = answer[d]
         /\ answer' \in [Events -> {0, 200, 400, 418, 500}] /\ answer'[e] = code
  <1>1. at \in [Events -> Places] /\ answer \in [Events -> {0, 200, 400, 418, 500}]
    BY DEF ReceiverInv, TypeOK
  <1>2. at' = [at EXCEPT ![e] = "done"] /\ answer' = [answer EXCEPT ![e] = code]
    BY DEF Reply
  <1>3. /\ at' \in [Events -> Places] /\ at'[e] = "done"
        /\ \A d \in Events \ {e} : at'[d] = at[d]
    BY <1>1, <1>2 DEF Places
  <1>4. /\ answer' \in [Events -> {0, 200, 400, 418, 500}] /\ answer'[e] = code
        /\ \A d \in Events \ {e} : answer'[d] = answer[d]
    BY <1>1, <1>2
  <1>5. QED
    BY <1>3, <1>4

(* What is left to show of a step of the handler of e that triggers        *)
(* nothing.                                                                *)
LEMMA HandlerStep ==
  ASSUME ReceiverInv, NEW e \in Events, at[e] \notin {"none", "done"},
         UNCHANGED <<commit, events, channel, runs, dropped>>,
         at' \in [Events -> Places],
         answer' \in [Events -> {0, 200, 400, 418, 500}], answer'[e] # 200,
         sha' \in [Events -> 0..Tip], config' \in [Events -> 0..Tip],
         unread' \subseteq Events, unread \subseteq unread',
         \A d \in Events \ {e} : at'[d] = at[d] /\ answer'[d] = answer[d]
                                 /\ sha'[d] = sha[d] /\ config'[d] = config[d],
         HandlerOf(e)'
  PROVE  ReceiverInv'
  <1>0. TypeOK /\ EventsKnown /\ TriggeredOnce /\ RunsKnown /\ HandlerOf(e)
    BY DEF ReceiverInv
  <1>1. Tip' = Tip
    BY DEF Tip
  <1>2. TypeOK'
    BY <1>0, <1>1 DEF TypeOK
  <1>3. EventsKnown'
    BY <1>0, <1>1 DEF EventsKnown
  <1>4. TriggeredOnce' /\ RunsKnown'
    <2>1. answer[e] # 200
      BY <1>0 DEF HandlerOf
    <2>2. \A d \in Events : answer'[d] = 200 <=> answer[d] = 200
      BY <2>1
    <2>3. \A d \in Events : answer[d] = 200 => config'[d] = config[d]
      BY <2>1
    <2>4. QED
      BY <1>0, <2>2, <2>3, SameTriggers, SameRuns
  <1>5. ASSUME NEW d \in Events \ {e} PROVE HandlerOf(d)'
    <2>1. HandlerOf(d)
      BY DEF ReceiverInv
    <2>2. at'[d] = at[d] /\ answer'[d] = answer[d] /\ sha'[d] = sha[d] /\ config'[d] = config[d]
      OBVIOUS
    <2>3. QED
      BY <2>1, <2>2 DEF HandlerOf
  <1>6. QED
    BY <1>2, <1>3, <1>4, <1>5 DEF ReceiverInv

(* A handler that is not done has triggered nothing yet.                   *)
LEMMA NotBuilt ==
  ASSUME ReceiverInv, NEW e \in Events, at[e] # "done"
  PROVE  answer[e] = 0 /\ e \notin Triggers \cup dropped /\ run[e] = "none" /\ built[e] = 0
  <1>1. answer[e] = 0
    BY DEF ReceiverInv, HandlerOf
  <1>2. e \notin Triggers \cup dropped
    BY <1>1 DEF ReceiverInv, TriggeredOnce
  <1>3. run[e] = "none"
    BY <1>2 DEF Triggers
  <1>4. QED
    BY <1>1, <1>2, <1>3 DEF ReceiverInv, RunsKnown, RunOf

LEMMA EventOfHandler ==
  ASSUME ReceiverInv, NEW e \in Events, at[e] # "none"
  PROVE  events[e].type \in EventTypes /\ events[e].commit \in 0..MaxCommits
         /\ events[e].commit <= Tip
  <1>1. events \in Seq(Event) /\ e \in DOMAIN events /\ events[e].commit <= Tip
    BY DEF ReceiverInv, TypeOK, EventsKnown, Event
  <1>2. events[e] \in Event
    BY <1>1
  <1>3. QED
    BY <1>1, <1>2 DEF Event

LEMMA HandlersTyped ==
  ASSUME ReceiverInv
  PROVE  /\ answer \in [Events -> {0, 200, 400, 418, 500}]
         /\ sha \in [Events -> 0..Tip] /\ config \in [Events -> 0..Tip]
         /\ unread \subseteq Events
  BY DEF ReceiverInv, TypeOK

LEMMA ReceiverReply ==
  ASSUME ReceiverInv, NEW e \in Events, at[e] \notin {"none", "done"},
         NEW code \in {0, 400, 418, 500}, Reply(e, code),
         UNCHANGED <<commit, events, sha, config, channel, runs, unread, dropped>>
  PROVE  ReceiverInv'
  <1>1. TypeOK
    BY DEF ReceiverInv
  <1>2. /\ at' \in [Events -> Places] /\ at'[e] = "done"
        /\ \A d \in Events \ {e} : at'[d] = at[d] /\ answer'[d] = answer[d]
        /\ answer' \in [Events -> {0, 200, 400, 418, 500}] /\ answer'[e] = code
    BY ReplyEffect
  <1>3. HandlerOf(e)'
    BY <1>2, NotBuilt DEF HandlerOf
  <1>4. sha' \in [Events -> 0..Tip] /\ config' \in [Events -> 0..Tip] /\ unread' \subseteq Events
    BY <1>1 DEF TypeOK
  <1>5. QED
    BY <1>2, <1>3, <1>4, HandlerStep

LEMMA ReceiverValidate ==
  ASSUME ReceiverInv, NEW e \in Events, Validate(e)
  PROVE  ReceiverInv'
  <1>0. TypeOK /\ EventsKnown /\ HandlerOf(e)
    BY DEF ReceiverInv
  <1>1. /\ at[e] = "validate"
        /\ UNCHANGED <<commit, events, sha, config, channel, runs, unread, dropped>>
    BY DEF Validate
  <1>3. events[e].type \in EventTypes
    BY <1>1, EventOfHandler
  <1>4. Goto(e, "commit") \/ Reply(e, 0) \/ Reply(e, 400) \/ Reply(e, 418)
    BY <1>3 DEF Validate, EventTypes
  <1>5. CASE Goto(e, "commit")
    <2>1. /\ at' \in [Events -> Places] /\ at'[e] = "commit"
          /\ \A d \in Events \ {e} : at'[d] = at[d]
          /\ answer' = answer
      BY <1>5, GotoEffect DEF Places
    <2>2. HandlerOf(e)'
      BY <1>1, <2>1, NotBuilt DEF HandlerOf
    <2>3. /\ answer' \in [Events -> {0, 200, 400, 418, 500}] /\ answer'[e] # 200
          /\ sha' \in [Events -> 0..Tip] /\ config' \in [Events -> 0..Tip]
          /\ unread' \subseteq Events
      BY <1>1, <2>1, NotBuilt, HandlersTyped
    <2>4. QED
      BY <1>1, <2>1, <2>2, <2>3, HandlerStep
  <1>6. CASE Reply(e, 0) \/ Reply(e, 400) \/ Reply(e, 418)
    BY <1>1, <1>6, ReceiverReply
  <1>7. QED
    BY <1>4, <1>5, <1>6

LEMMA ReceiverCommit ==
  ASSUME ReceiverInv, NEW e \in Events, GetCommitSHA(e)
  PROVE  ReceiverInv'
  <1>0. TypeOK /\ EventsKnown /\ HandlerOf(e)
    BY DEF ReceiverInv
  <1>1. /\ at[e] = "commit" /\ Goto(e, "skip")
        /\ UNCHANGED <<commit, events, config, channel, runs, unread, dropped>>
    BY DEF GetCommitSHA
  <1>2. PICK m \in Nat : m = Tip /\ m > 0
    BY <1>0 DEF TypeOK, Commits, Tip
  <1>3. PICK c \in 0..MaxCommits : c = events[e].commit /\ c <= m
    <2>1. events[e].commit \in 0..MaxCommits /\ events[e].commit <= Tip
      BY <1>1, EventOfHandler
    <2>2. QED
      BY <1>2, <2>1
  <1>4. PICK s \in 1..m : sha' = [sha EXCEPT ![e] = s]
    <2>1. sha' = [sha EXCEPT ![e] = IF c # 0 THEN c ELSE m]
      BY <1>2, <1>3 DEF GetCommitSHA
    <2>2. c \in Nat /\ m \in 1..m
      BY <1>2, ReceiverAssumption
    <2>3. (IF c # 0 THEN c ELSE m) \in 1..m
      BY <1>2, <1>3, <2>2
    <2>4. QED
      BY <2>1, <2>3
  <1>5. /\ sha' \in [Events -> 0..Tip] /\ sha'[e] = s
        /\ \A d \in Events \ {e} : sha'[d] = sha[d]
    BY <1>0, <1>2, <1>4 DEF TypeOK
  <1>6. /\ at' \in [Events -> Places] /\ at'[e] = "skip"
        /\ \A d \in Events \ {e} : at'[d] = at[d]
        /\ answer' = answer
    BY <1>1, GotoEffect DEF Places
  <1>7. HandlerOf(e)'
    BY <1>1, <1>5, <1>6, NotBuilt DEF HandlerOf
  <1>8. /\ answer' \in [Events -> {0, 200, 400, 418, 500}] /\ answer'[e] # 200
        /\ config' \in [Events -> 0..Tip] /\ unread' \subseteq Events
    BY <1>1, <1>6, NotBuilt, HandlersTyped
  <1>9. QED
    BY <1>1, <1>5, <1>6, <1>7, <1>8, HandlerStep

LEMMA ReceiverCheckSkip ==
  ASSUME ReceiverInv, NEW e \in Events, CheckSkip(e) \/ SkipUnread(e)
  PROVE  ReceiverInv'
  <1>0. TypeOK /\ EventsKnown /\ HandlerOf(e)
    BY DEF ReceiverInv
  <1>1. at[e] = "skip" /\ UNCHANGED <<commit, events, sha, config, channel, runs, dropped>>
    BY DEF CheckSkip, SkipUnread
  <1>2. CASE Reply(e, 418) /\ unread' = unread
    BY <1>1, <1>2, ReceiverReply
  <1>3. CASE /\ Goto(e, "config") /\ unread' \in {unread, unread \cup {e}}
             /\ commit[sha[e]] = "skip" => e \in unread'
    <2>1. /\ at' \in [Events -> Places] /\ at'[e] = "config"
          /\ \A d \in Events \ {e} : at'[d] = at[d]
          /\ answer' = answer
      BY <1>3, GotoEffect DEF Places
    <2>2. HandlerOf(e)'
      BY <1>0, <1>1, <1>3, <2>1, NotBuilt DEF HandlerOf
    <2>3. /\ answer' \in [Events -> {0, 200, 400, 418, 500}] /\ answer'[e] # 200
          /\ sha' \in [Events -> 0..Tip] /\ config' \in [Events -> 0..Tip]
          /\ unread' \subseteq Events /\ unread \subseteq unread'
      BY <1>1, <1>3, <2>1, NotBuilt, HandlersTyped
    <2>4. QED
      BY <1>1, <2>1, <2>2, <2>3, HandlerStep
  <1>4. QED
    BY <1>2, <1>3 DEF CheckSkip, ShouldSkip, SkipUnread

LEMMA ReceiverConfigure ==
  ASSUME ReceiverInv, NEW e \in Events, Configure(e)
  PROVE  ReceiverInv'
  <1>0. TypeOK /\ EventsKnown /\ HandlerOf(e)
    BY DEF ReceiverInv
  <1>1. /\ at[e] = "config"
        /\ UNCHANGED <<commit, events, sha, channel, runs, unread, dropped>>
    BY DEF Configure
  <1>2. config' = [config EXCEPT ![e] = Tip] /\ Goto(e, "send")
    BY DEF Configure, GetODSConfig
  <1>3. PICK m \in Nat : m = Tip /\ sha[e] \in 0..m
    BY <1>0 DEF TypeOK, Commits, Tip
  <1>4. /\ config' \in [Events -> 0..Tip] /\ config'[e] = m
        /\ \A d \in Events \ {e} : config'[d] = config[d]
    BY <1>0, <1>2, <1>3 DEF TypeOK
  <1>5. /\ at' \in [Events -> Places] /\ at'[e] = "send"
        /\ \A d \in Events \ {e} : at'[d] = at[d]
        /\ answer' = answer
    BY <1>2, GotoEffect DEF Places
  <1>6. HandlerOf(e)'
    <2>1. sha'[e] <= config'[e]
      BY <1>1, <1>3, <1>4
    <2>2. answer'[e] = 0 /\ built'[e] = 0
      BY <1>1, <1>5, NotBuilt
    <2>3. QED
      BY <1>0, <1>1, <1>5, <2>1, <2>2 DEF HandlerOf
  <1>7. /\ answer' \in [Events -> {0, 200, 400, 418, 500}] /\ answer'[e] # 200
        /\ sha' \in [Events -> 0..Tip] /\ unread' \subseteq Events
    BY <1>1, <1>5, NotBuilt, HandlersTyped
  <1>8. QED
    BY <1>1, <1>4, <1>5, <1>6, <1>7, HandlerStep

LEMMA ReceiverFails ==
  ASSUME ReceiverInv, NEW e \in Events, CallFails(e)
  PROVE  ReceiverInv'
  <1>1. at[e] \in {"commit", "config"} /\ Reply(e, 500)
        /\ UNCHANGED <<commit, events, sha, config, channel, runs, unread, dropped>>
    BY DEF CallFails
  <1>2. QED
    BY <1>1, ReceiverReply

-----------------------------------------------------------------------------
(* The way of a trigger: answered and put into the channel in one step,    *)
(* then scheduled to a run, or dropped.                                    *)

LEMMA ReceiverSend ==
  ASSUME ReceiverInv, NEW e \in Events, Send(e)
  PROVE  ReceiverInv'
  <1>0. TypeOK /\ EventsKnown /\ TriggeredOnce /\ RunsKnown /\ HandlerOf(e)
    BY DEF ReceiverInv
  <1>1. /\ at[e] = "send" /\ Len(channel) < ChannelSize
        /\ channel' = Append(channel, e) /\ Reply(e, 200)
        /\ UNCHANGED <<commit, events, sha, config, runs, unread, dropped>>
    BY DEF Send, SentToChannel
  <1>2. channel \in Seq(Events)
    BY <1>0 DEF TypeOK
  <1>3. /\ channel' \in Seq(Events) /\ Len(channel') = Len(channel) + 1
        /\ Elements(channel') = Elements(channel) \cup {e}
        /\ Distinct(channel) /\ e \notin Elements(channel) => Distinct(channel')
    BY <1>1, <1>2, AppendDistinct
  <1>4. Len(channel') <= ChannelSize
    <2>1. Len(channel) \in Nat
      BY <1>2
    <2>2. QED
      BY <1>1, <1>3, <2>1, ReceiverAssumption
  <1>5. /\ at' \in [Events -> Places] /\ at'[e] = "done"
        /\ \A d \in Events \ {e} : at'[d] = at[d] /\ answer'[d] = answer[d]
        /\ answer' \in [Events -> {0, 200, 400, 418, 500}] /\ answer'[e] = 200
    BY <1>1, ReplyEffect
  <1>6. Tip' = Tip
    BY <1>1 DEF Tip
  <1>7. TypeOK'
    BY <1>0, <1>1, <1>3, <1>4, <1>5, <1>6 DEF TypeOK
  <1>8. EventsKnown'
    BY <1>0, <1>1, <1>5, <1>6 DEF EventsKnown
  <1>9. e \notin Triggers \cup dropped /\ run[e] = "none" /\ built[e] = 0
    BY <1>1, NotBuilt
  <1>10. RunsKnown'
    BY <1>0, <1>1, <1>5, SameRuns
  <1>11. TriggeredOnce'
    <2>1. Triggers' = Triggers \cup {e}
      BY <1>1, <1>3 DEF Triggers
    <2>2. {d \in Events : answer'[d] = 200} = {d \in Events : answer[d] = 200} \cup {e}
      BY <1>5
    <2>3. e \notin Elements(channel)
      BY <1>9 DEF Triggers
    <2>4. Distinct(channel)'
      BY <1>0, <1>3, <2>3 DEF TriggeredOnce
    <2>5. \A d \in Elements(channel') : run[d] = "none" /\ d \notin dropped
      BY <1>0, <1>3, <1>9 DEF TriggeredOnce
    <2>6. QED
      BY <1>0, <1>1, <2>1, <2>2, <2>4, <2>5 DEF TriggeredOnce
  <1>12. ASSUME NEW d \in Events PROVE HandlerOf(d)'
    <2>1. CASE d = e
      BY <1>0, <1>1, <1>5, <1>9, <2>1 DEF HandlerOf
    <2>2. CASE d # e
      <3>1. HandlerOf(d) /\ at'[d] = at[d] /\ answer'[d] = answer[d]
        BY <1>5, <2>2 DEF ReceiverInv
      <3>2. QED
        BY <1>1, <3>1 DEF HandlerOf
    <2>3. QED
      BY <2>1, <2>2
  <1>13. QED
    BY <1>7, <1>8, <1>10, <1>11, <1>12 DEF ReceiverInv

(* The scheduler takes a trigger that has no run and was not dropped; what *)
(* comes of it is a run, a loss, or both.                                  *)
LEMMA ReceiverSchedule ==
  ASSUME ReceiverInv, Schedule
  PROVE  ReceiverInv'
  <1>0. TypeOK /\ EventsKnown /\ TriggeredOnce /\ RunsKnown
    BY DEF ReceiverInv
  <1>1. /\ channel # << >> /\ channel' = Tail(channel)
        /\ UNCHANGED <<commit, handlers, executed, built, unread>>
    BY DEF Schedule
  <1>2. PICK e \in Events : e = Head(channel)
    BY <1>0, <1>1, TailDistinct DEF TypeOK
  <1>3. /\ channel' \in Seq(Events) /\ Len(channel') <= Len(channel)
        /\ Elements(channel) = Elements(channel') \cup {e}
        /\ Distinct(channel') /\ e \notin Elements(channel')
    BY <1>0, <1>1, <1>2, TailDistinct DEF TypeOK, TriggeredOnce
  <1>4. /\ definition' \in {definition, e}
        /\ dropped' \in {dropped, dropped \cup {e}}
        /\ \/ run' = [run EXCEPT ![e] = "pending"] /\ definition' = e
           \/ run' = run /\ e \in dropped'
    BY <1>2 DEF Schedule, WritePipeline, CreateRun
  <1>5. /\ run[e] = "none" /\ e \notin dropped /\ answer[e] = 200 /\ built[e] = 0
    <2>1. run[e] = "none" /\ e \notin dropped /\ answer[e] = 200
      BY <1>0, <1>3 DEF TriggeredOnce, Triggers
    <2>2. QED
      BY <1>0, <2>1 DEF RunsKnown, RunOf
  <1>6. /\ run' \in [Events -> RunStates] /\ run'[e] \in {"none", "pending"}
        /\ \A d \in Events \ {e} : run'[d] = run[d]
        /\ run'[e] = "pending" => definition' = e
        /\ run'[e] = "pending" \/ e \in dropped'
    <2>1. run \in [Events -> RunStates]
      BY <1>0 DEF TypeOK
    <2>2. CASE run' = [run EXCEPT ![e] = "pending"] /\ definition' = e
      BY <1>4, <2>1, <2>2 DEF RunStates
    <2>3. CASE run' = run /\ e \in dropped'
      BY <1>5, <2>1, <2>3
    <2>4. QED
      BY <1>4, <2>2, <2>3
  <1>7. Tip' = Tip
    BY <1>1 DEF Tip
  <1>8. Len(channel') <= ChannelSize
    <2>1. Len(channel') \in Nat /\ Len(channel) \in Nat
      BY <1>0, <1>3 DEF TypeOK
    <2>2. QED
      BY <1>0, <1>3, <2>1, ReceiverAssumption DEF TypeOK
  <1>9. TypeOK'
    <2>1. definition' \in {0} \cup Events /\ dropped' \subseteq Events
      BY <1>0, <1>4 DEF TypeOK
    <2>2. run' \in [Events -> RunStates]
      BY <1>6
    <2>3. QED
      BY <1>0, <1>1, <1>3, <1>7, <1>8, <2>1, <2>2 DEF TypeOK
  <1>10. EventsKnown'
    BY <1>0, <1>1, <1>7 DEF EventsKnown
  <1>11. TriggeredOnce'
    <2>1. Triggers' \cup dropped' = Triggers \cup dropped
      <3>1. \A d \in Events \ {e} : d \in Triggers' \cup dropped' <=> d \in Triggers \cup dropped
        BY <1>3, <1>4, <1>6 DEF Triggers
      <3>2. e \in Triggers \cup dropped /\ e \in Triggers' \cup dropped'
        BY <1>3, <1>6 DEF Triggers
      <3>3. /\ Triggers \cup dropped \subseteq Events
            /\ Triggers' \cup dropped' \subseteq Events
        <4>1. Elements(channel) \subseteq Events
          BY <1>0 DEF TypeOK, Elements
        <4>2. Elements(channel') \subseteq Events
          BY <1>3, <4>1
        <4>3. dropped \subseteq Events /\ dropped' \subseteq Events
          BY <1>0, <1>9 DEF TypeOK
        <4>4. QED
          BY <4>1, <4>2, <4>3 DEF Triggers, Elements
      <3>4. QED
        BY <3>1, <3>2, <3>3
    <2>2. \A d \in Elements(channel') : run'[d] = "none" /\ d \notin dropped'
      <3> SUFFICES ASSUME NEW d \in Elements(channel')
                   PROVE  run'[d] = "none" /\ d \notin dropped'
        OBVIOUS
      <3>1. d \in Events \ {e} /\ run[d] = "none" /\ d \notin dropped
        <4>1. d \in Elements(channel) /\ d # e
          BY <1>3
        <4>2. Elements(channel) \subseteq Events
          BY <1>0 DEF TypeOK, Elements
        <4>3. QED
          BY <1>0, <4>1, <4>2 DEF TriggeredOnce
      <3>2. QED
        BY <1>4, <1>6, <3>1
    <2>3. QED
      BY <1>0, <1>1, <1>3, <2>1, <2>2 DEF TriggeredOnce
  <1>12. RunsKnown'
    <2>1. definition' # 0 => answer'[definition'] = 200
      BY <1>0, <1>1, <1>4, <1>5 DEF RunsKnown
    <2>2. e # 0
      BY DEF Events
    <2>3. ASSUME NEW d \in Events PROVE RunOf(d)'
      <3>1. RunOf(d)
        BY <1>0 DEF RunsKnown
      <3>2. CASE d = e
        <4>1. run'[e] # "started" /\ built'[e] = 0
          BY <1>1, <1>5, <1>6
        <4>2. run'[e] # "none" => definition' # 0
          BY <1>6, <2>2
        <4>3. QED
          BY <3>2, <4>1, <4>2 DEF RunOf
      <3>3. CASE d # e
        <4>1. run'[d] = run[d]
          BY <1>6, <3>3
        <4>2. definition # 0 => definition' # 0
          BY <1>4, <2>2
        <4>3. QED
          BY <1>1, <3>1, <4>1, <4>2 DEF RunOf
      <3>4. QED
        BY <3>2, <3>3
    <2>4. QED
      BY <2>1, <2>3 DEF RunsKnown
  <1>13. \A d \in Events : HandlerOf(d)'
    BY <1>1 DEF ReceiverInv, HandlerOf
  <1>14. QED
    BY <1>9, <1>10, <1>11, <1>12, <1>13 DEF ReceiverInv

(* A run starts with what the Pipeline was last written for, of a trigger  *)
(* whose configuration was read from a commit of the branch.               *)
LEMMA ReceiverStartRun ==
  ASSUME ReceiverInv, NEW e \in Events, StartRun(e) \/ CancelRun(e)
  PROVE  ReceiverInv'
  <1>0. TypeOK /\ EventsKnown /\ TriggeredOnce /\ RunsKnown
    BY DEF ReceiverInv
  <1>1. /\ run[e] = "pending"
        /\ UNCHANGED <<commit, handlers, channel, definition, unread, dropped>>
        /\ \/ /\ run' = [run EXCEPT ![e] = "started"]
              /\ executed' = [executed EXCEPT ![e] = definition]
              /\ built' = [built EXCEPT ![e] = Tip]
           \/ run' = [run EXCEPT ![e] = "cancelled"] /\ UNCHANGED <<executed, built>>
    BY DEF StartRun, CancelRun, Revision
  <1>2. PICK m \in Nat : m = Tip /\ m > 0
    BY <1>0 DEF TypeOK, Commits, Tip
  <1>3. /\ run' \in [Events -> RunStates] /\ executed' \in [Events -> {0} \cup Events]
        /\ built' \in [Events -> 0..Tip]
        /\ \A d \in Events \ {e} :
             run'[d] = run[d] /\ executed'[d] = executed[d] /\ built'[d] = built[d]
    <2>1. /\ run \in [Events -> RunStates] /\ executed \in [Events -> {0} \cup Events]
          /\ built \in [Events -> 0..Tip] /\ definition \in {0} \cup Events /\ Tip \in 0..Tip
      BY <1>0, <1>2 DEF TypeOK
    <2>2. run' \in [Events -> RunStates] /\ \A d \in Events \ {e} : run'[d] = run[d]
      BY <1>1, <2>1 DEF RunStates
    <2>3. /\ executed' \in [Events -> {0} \cup Events]
          /\ \A d \in Events \ {e} : executed'[d] = executed[d]
      BY <1>1, <2>1
    <2>4. built' \in [Events -> 0..Tip] /\ \A d \in Events \ {e} : built'[d] = built[d]
      BY <1>1, <2>1
    <2>5. QED
      BY <2>2, <2>3, <2>4
  <1>4. RunOf(e) /\ definition # 0 /\ definition \in Events /\ answer[definition] = 200
    <2>1. RunOf(e)
      BY <1>0 DEF RunsKnown
    <2>2. definition # 0
      BY <1>1, <2>1 DEF RunOf
    <2>3. QED
      BY <1>0, <2>1, <2>2 DEF RunsKnown, TypeOK
  <1>5. \/ run'[e] = "started" /\ executed'[e] = definition /\ built'[e] = m
        \/ run'[e] = "cancelled" /\ built'[e] = 0
    <2>1. built[e] = 0
      BY <1>1, <1>4 DEF RunOf
    <2>2. QED
      BY <1>0, <1>1, <1>2, <2>1 DEF TypeOK
  <1>6. Tip' = Tip
    BY <1>1 DEF Tip
  <1>7. TypeOK'
    BY <1>0, <1>1, <1>3, <1>6 DEF TypeOK
  <1>8. EventsKnown'
    BY <1>0, <1>1, <1>6 DEF EventsKnown
  <1>9. TriggeredOnce'
    <2>1. \A d \in Events : run'[d] = "none" <=> run[d] = "none"
      BY <1>1, <1>3, <1>5
    <2>2. Triggers' = Triggers
      BY <1>1, <2>1 DEF Triggers
    <2>3. Elements(channel) \subseteq Events
      BY <1>0 DEF TypeOK, Elements
    <2>4. \A d \in Elements(channel) : run'[d] = "none" /\ d \notin dropped
      BY <1>0, <2>1, <2>3 DEF TriggeredOnce
    <2>5. QED
      BY <1>0, <1>1, <2>2, <2>4 DEF TriggeredOnce
  <1>10. RunsKnown'
    <2>1. config[definition] \in 0..m /\ config[definition] <= m
      BY <1>0, <1>2, <1>4 DEF TypeOK
    <2>2. RunOf(e)'
      BY <1>1, <1>2, <1>4, <1>5, <2>1 DEF RunOf
    <2>3. ASSUME NEW d \in Events, d # e PROVE RunOf(d)'
      <3>1. RunOf(d)
        BY <1>0 DEF RunsKnown
      <3>2. QED
        BY <1>1, <1>3, <2>3, <3>1 DEF RunOf
    <2>4. QED
      BY <1>0, <1>1, <2>2, <2>3 DEF RunsKnown
  <1>11. ASSUME NEW d \in Events PROVE HandlerOf(d)'
    <2>1. HandlerOf(d)
      BY DEF ReceiverInv
    <2>2. CASE d = e
      <3>1. config[e] \in 0..m
        BY <1>0, <1>2 DEF TypeOK
      <3>2. built'[e] # 0 => config'[e] <= built'[e]
        BY <1>1, <1>5, <3>1
      <3>3. QED
        BY <1>1, <2>1, <2>2, <3>2 DEF HandlerOf
    <2>3. CASE d # e
      BY <1>1, <1>3, <2>1, <2>3 DEF HandlerOf
    <2>4. QED
      BY <2>2, <2>3
  <1>12. QED
    BY <1>7, <1>8, <1>9, <1>10, <1>11 DEF ReceiverInv

(* A restart drops what is in the channel and the handlers that have not   *)
(* answered; what has been answered stays as it was.                       *)
LEMMA RestartEffect ==
  ASSUME ReceiverInv, Restart
  PROVE  /\ at' \in [Events -> Places]
         /\ \A e \in Events : at'[e] = IF Active(e) THEN "done" ELSE at[e]
         /\ \A e \in Events : sha'[e] = IF Active(e) THEN 0 ELSE sha[e]
         /\ \A e \in Events : config'[e] = IF Active(e) THEN 0 ELSE config[e]
         /\ sha' \in [Events -> 0..Tip] /\ config' \in [Events -> 0..Tip]
         /\ channel' = << >> /\ dropped' = dropped \cup Elements(channel)
         /\ UNCHANGED <<commit, events, answer, runs, unread>>
         /\ \A e \in Events : Active(e) => answer[e] = 0 /\ built[e] = 0
  <1>1. TypeOK
    BY DEF ReceiverInv
  <1>2. Tip \in Nat
    BY <1>1 DEF TypeOK, Tip
  <1>3. at' \in [Events -> Places]
    BY <1>1 DEF Restart, TypeOK, Places
  <1>4. sha' \in [Events -> 0..Tip] /\ config' \in [Events -> 0..Tip]
    BY <1>1, <1>2 DEF Restart, TypeOK
  <1>5. \A e \in Events : Active(e) => answer[e] = 0 /\ built[e] = 0
    BY NotBuilt DEF Active
  <1>6. QED
    BY <1>3, <1>4, <1>5 DEF Restart

LEMMA ReceiverRestart ==
  ASSUME ReceiverInv, Restart
  PROVE  ReceiverInv'
  <1>0. TypeOK /\ EventsKnown /\ TriggeredOnce /\ RunsKnown
    BY DEF ReceiverInv
  <1>1. /\ at' \in [Events -> Places]
        /\ \A e \in Events : at'[e] = IF Active(e) THEN "done" ELSE at[e]
        /\ \A e \in Events : sha'[e] = IF Active(e) THEN 0 ELSE sha[e]
        /\ \A e \in Events : config'[e] = IF Active(e) THEN 0 ELSE config[e]
        /\ sha' \in [Events -> 0..Tip] /\ config' \in [Events -> 0..Tip]
        /\ channel' = << >> /\ dropped' = dropped \cup Elements(channel)
        /\ UNCHANGED <<commit, events, answer, runs, unread>>
        /\ \A e \in Events : Active(e) => answer[e] = 0 /\ built[e] = 0
    BY RestartEffect
  <1>2. Tip' = Tip
    BY <1>1 DEF Tip
  <1>3. /\ channel' \in Seq(Events) /\ Len(channel') <= ChannelSize
        /\ Elements(channel') = {} /\ Distinct(channel')
    <2>1. channel' \in Seq(Events) /\ Len(channel') = 0 /\ DOMAIN channel' = {}
      BY <1>1
    <2>2. QED
      BY <2>1, ReceiverAssumption DEF Elements, Distinct
  <1>4. Elements(channel) \subseteq Events
    BY <1>0 DEF TypeOK, Elements
  <1>5. TypeOK'
    BY <1>0, <1>1, <1>2, <1>3, <1>4 DEF TypeOK
  <1>6. EventsKnown'
    BY <1>0, <1>1, <1>2 DEF EventsKnown, Active
  <1>7. TriggeredOnce'
    <2>1. Triggers' \cup dropped' = Triggers \cup dropped
      BY <1>1, <1>3 DEF Triggers
    <2>2. QED
      BY <1>0, <1>1, <1>3, <2>1 DEF TriggeredOnce
  <1>8. RunsKnown'
    <2>1. \A e \in Events : answer[e] = 200 => answer'[e] = 200 /\ config'[e] = config[e]
      BY <1>1
    <2>2. QED
      BY <1>0, <1>1, <2>1, SameRuns
  <1>9. ASSUME NEW e \in Events PROVE HandlerOf(e)'
    <2>1. HandlerOf(e)
      BY DEF ReceiverInv
    <2>2. CASE Active(e)
      BY <1>1, <2>2 DEF HandlerOf
    <2>3. CASE ~Active(e)
      BY <1>1, <2>1, <2>3 DEF HandlerOf
    <2>4. QED
      BY <2>2, <2>3
  <1>10. QED
    BY <1>5, <1>6, <1>7, <1>8, <1>9 DEF ReceiverInv

-----------------------------------------------------------------------------
(* Every reachable state, and what follows from it. *)

LEMMA ReceiverNext ==
  ASSUME ReceiverInv, [Next]_vars
  PROVE  ReceiverInv'
  <1>1. ASSUME NEW k \in CommitKinds, Push(k) PROVE ReceiverInv'
    BY <1>1, ReceiverPush
  <1>2. CASE OtherEvent
    BY <1>2, ReceiverOther
  <1>3. ASSUME NEW e \in Events, Handle(e) \/ SkipUnread(e) \/ CallFails(e)
        PROVE  ReceiverInv'
    <2>1. CASE Validate(e)
      BY <2>1, ReceiverValidate
    <2>2. CASE GetCommitSHA(e)
      BY <2>2, ReceiverCommit
    <2>3. CASE CheckSkip(e) \/ SkipUnread(e)
      BY <2>3, ReceiverCheckSkip
    <2>4. CASE Configure(e)
      BY <2>4, ReceiverConfigure
    <2>5. CASE Send(e)
      BY <2>5, ReceiverSend
    <2>6. CASE CallFails(e)
      BY <2>6, ReceiverFails
    <2>7. QED
      BY <1>3, <2>1, <2>2, <2>3, <2>4, <2>5, <2>6 DEF Handle
  <1>4. CASE Schedule
    BY <1>4, ReceiverSchedule
  <1>5. ASSUME NEW e \in Events, StartRun(e) \/ CancelRun(e) PROVE ReceiverInv'
    BY <1>5, ReceiverStartRun
  <1>6. CASE Restart
    BY <1>6, ReceiverRestart
  <1>7. CASE UNCHANGED vars
    <2>1. Tip' = Tip
      BY <1>7 DEF Tip
    <2>2. TypeOK'
      BY <1>7, <2>1 DEF ReceiverInv, TypeOK
    <2>3. EventsKnown'
      BY <1>7, <2>1 DEF ReceiverInv, EventsKnown
    <2>4. TriggeredOnce' /\ RunsKnown'
      BY <1>7, SameTriggers, SameRuns DEF ReceiverInv
    <2>5. \A e \in Events : HandlerOf(e)'
      BY <1>7 DEF ReceiverInv, HandlerOf
    <2>6. QED
      BY <2>2, <2>3, <2>4, <2>5 DEF ReceiverInv
  <1>8. QED
    BY <1>1, <1>2, <1>3, <1>4, <1>5, <1>6, <1>7 DEF Next

LEMMA ReceiverInvariant == Spec => []ReceiverInv
  BY ReceiverInit, ReceiverNext, PTL DEF Spec

(* The commit of a trigger, and of its configuration, are commits of the   *)
(* branch whenever the handler asked, and the channel never holds more     *)
(* triggers than its capacity, for any number of handlers at once.         *)
THEOREM ReceiverTypeCorrect == Spec => []TypeOK
  <1>1. ReceiverInv => TypeOK
    BY DEF ReceiverInv
  <1>2. QED
    BY <1>1, ReceiverInvariant, PTL

(* The ref is resolved three times, for the event, for ods.yaml and for    *)
(* the checkout, each time to a commit that is no older; and as a run      *)
(* executes what the Pipeline was last written for, by whichever trigger,  *)
(* this is no newer than what it checks out.  True of branches that move   *)
(* between any two calls, of handlers that overtake each other, and of     *)
(* triggers that were dropped after they had written the Pipeline.         *)
THEOREM ConfigBetweenCorrect == Spec => []ConfigBetween
  <1>1. ASSUME ReceiverInv PROVE ConfigBetween
    <2>1. TypeOK /\ TriggeredOnce /\ RunsKnown /\ \A e \in Events : HandlerOf(e)
      BY <1>1 DEF ReceiverInv
    <2>2. \A d \in Events : answer[d] = 200 => 0 < sha[d] /\ sha[d] <= config[d]
      BY <2>1 DEF HandlerOf, TypeOK
    <2>3. \A e \in Triggers : e \in Events /\ answer[e] = 200
      BY <2>1 DEF TriggeredOnce
    <2>4. ASSUME NEW e \in Events, run[e] = "started"
          PROVE  LET d == executed[e] IN
                   d \in Events /\ 0 < sha[d] /\ sha[d] <= config[d] /\ config[d] <= built[e]
      <3>1. /\ executed[e] \in Events /\ answer[executed[e]] = 200
            /\ config[executed[e]] <= built[e]
        BY <2>1, <2>4 DEF RunsKnown, RunOf, TypeOK
      <3>2. QED
        BY <2>2, <3>1
    <2>5. QED
      BY <2>2, <2>3, <2>4 DEF ConfigBetween
  <1>2. QED
    BY <1>1, ReceiverInvariant, PTL

(* A handler that has answered 200 has handed over its trigger, and only   *)
(* then: it is in the channel, once and as yet without a run, or has been  *)
(* scheduled to a run or dropped, whatever the capacity of the channel,    *)
(* the order of the handlers, failing calls and restarts.                  *)
THEOREM TriggeredOnceCorrect == Spec => []TriggeredOnce
  <1>1. ReceiverInv => TriggeredOnce
    BY DEF ReceiverInv
  <1>2. QED
    BY <1>1, ReceiverInvariant, PTL

(* The message that is looked at is that of the commit of the trigger,     *)
(* even when the branch has moved on: a commit that asks to be skipped     *)
(* triggers a run only when its message could not be read.                 *)
THEOREM SkippedCorrect == Spec => []SkippedNotTriggered
  <1>1. ReceiverInv => SkippedNotTriggered
    BY DEF ReceiverInv, HandlerOf, TriggeredOnce, SkippedNotTriggered
  <1>2. QED
    BY <1>1, ReceiverInvariant, PTL
-----------------------------------------------------------------------------
(* The receiver implements TriggerIntake: whatever calls its handlers make *)
(* on the way, each answers in one step.                                   *)

(* What has become of an event.                                            *)
RequestOf(e) ==
  CASE at[e] = "done" /\ answer[e] = 200 -> "accepted"
    [] at[e] = "done" /\ answer[e] # 200 -> "refused"
    [] at[e] = "send" -> "sending"
    [] at[e] \notin {"done", "send"} -> "new"

requestOf == [e \in Events |-> RequestOf(e)]

Intake == INSTANCE TriggerIntake WITH Requests <- Events, Capacity <- ChannelSize,
                                      request <- requestOf

LEMMA OneRequestChanges ==
  ASSUME NEW e \in Events, NEW outcome, RequestOf(e)' = outcome,
         \A d \in Events \ {e} : at'[d] = at[d] /\ answer'[d] = answer[d]
  PROVE  requestOf' = [requestOf EXCEPT ![e] = outcome]
  <1>1. \A d \in Events : d # e => RequestOf(d)' = RequestOf(d)
    BY DEF RequestOf
  <1>2. \A d \in Events : RequestOf(d)' = IF d = e THEN outcome ELSE RequestOf(d)
    BY <1>1
  <1> HIDE DEF RequestOf
  <1>3. QED
    BY <1>2 DEF requestOf

LEMMA SameRequests ==
  ASSUME \A d \in Events : RequestOf(d)' = RequestOf(d), UNCHANGED channel
  PROVE  UNCHANGED Intake!intakeVars
  BY DEF requestOf, Intake!intakeVars

(* Between two calls of a handler nothing is seen of it.                   *)
LEMMA GotoMaps ==
  ASSUME ReceiverInv, NEW e \in Events, at[e] \in {"validate", "commit", "skip", "config"},
         NEW place \in {"commit", "skip", "config", "send"}, Goto(e, place), UNCHANGED channel
  PROVE  [Intake!Next]_(Intake!intakeVars)
  <1>1. /\ at'[e] = place /\ answer' = answer
        /\ \A d \in Events \ {e} : at'[d] = at[d]
    BY GotoEffect DEF Places
  <1>2. CASE place = "send"
    <2>1. requestOf' = [requestOf EXCEPT ![e] = "sending"]
      BY <1>1, <1>2, OneRequestChanges DEF RequestOf
    <2>2. requestOf[e] = "new"
      BY DEF requestOf, RequestOf
    <2>3. QED
      BY <2>1, <2>2 DEF Intake!Next, Intake!Answer
  <1>3. CASE place # "send"
    BY <1>1, <1>3, SameRequests DEF RequestOf
  <1>4. QED
    BY <1>2, <1>3

(* A handler that does not reach the channel refuses.                      *)
LEMMA ReplyMaps ==
  ASSUME ReceiverInv, NEW e \in Events, at[e] \in {"validate", "commit", "skip", "config"},
         NEW code \in {0, 400, 418, 500}, Reply(e, code), UNCHANGED channel
  PROVE  Intake!Next
  <1>1. /\ at'[e] = "done" /\ answer'[e] # 200
        /\ \A d \in Events \ {e} : at'[d] = at[d] /\ answer'[d] = answer[d]
    BY ReplyEffect
  <1>2. requestOf' = [requestOf EXCEPT ![e] = "refused"]
    BY <1>1, OneRequestChanges DEF RequestOf
  <1>3. requestOf[e] = "new"
    BY DEF requestOf, RequestOf
  <1>4. Intake!Answer(e)
    BY <1>2, <1>3 DEF Intake!Answer
  <1>5. QED
    BY <1>4 DEF Intake!Next

LEMMA SendMaps ==
  ASSUME ReceiverInv, NEW e \in Events, Send(e)
  PROVE  Intake!Next
  <1>1. /\ at'[e] = "done" /\ answer'[e] = 200
        /\ \A d \in Events \ {e} : at'[d] = at[d] /\ answer'[d] = answer[d]
    BY ReplyEffect DEF Send
  <1>2. requestOf' = [requestOf EXCEPT ![e] = "accepted"]
    BY <1>1, OneRequestChanges DEF RequestOf
  <1>3. requestOf[e] = "sending"
    BY DEF requestOf, RequestOf, Send
  <1>4. QED
    BY <1>2, <1>3 DEF Send, SentToChannel, Intake!Next, Intake!Accept

(* A new event is as yet unanswered.                                       *)
LEMMA SentMaps ==
  ASSUME ReceiverInv, NEW type, NEW c, Sent(type, c), UNCHANGED <<answer, channel>>
  PROVE  UNCHANGED Intake!intakeVars
  <1> DEFINE e == Len(events) + 1
  <1>1. events \in Seq(Event) /\ at \in [Events -> Places]
    BY DEF ReceiverInv, TypeOK, Event
  <1>2. Len(events) \in Nat /\ e \in Events /\ e \notin DOMAIN events
    BY <1>1, ReceiverAssumption DEF Sent, Events
  <1>3. at[e] = "none"
    BY <1>2 DEF ReceiverInv, EventsKnown
  <1>4. at' = [at EXCEPT ![e] = "validate"]
    BY DEF Sent
  <1> HIDE DEF e
  <1>5. \A d \in Events : RequestOf(d)' = RequestOf(d)
    BY <1>1, <1>2, <1>3, <1>4 DEF RequestOf
  <1>6. QED
    BY <1>5, SameRequests

(* A restart refuses what has not been answered.                           *)
LEMMA RestartMaps ==
  ASSUME ReceiverInv, Restart
  PROVE  Intake!Lose
  <1> DEFINE cut == {e \in Events : at[e] \in {"validate", "commit", "skip", "config"}}
  <1>1. /\ \A e \in Events : at'[e] = IF Active(e) THEN "done" ELSE at[e]
        /\ channel' = << >> /\ UNCHANGED answer
        /\ \A e \in Events : Active(e) => answer[e] = 0
        /\ at \in [Events -> Places]
    BY RestartEffect DEF ReceiverInv, TypeOK
  <1>2. cut \in SUBSET {r \in Events : requestOf[r] = "new"}
    BY DEF requestOf, RequestOf
  <1>3. ASSUME NEW e \in Events
        PROVE  RequestOf(e)' =
                 IF RequestOf(e) = "sending" \/ e \in cut THEN "refused" ELSE RequestOf(e)
    <2>1. CASE Active(e)
      <3>1. at'[e] = "done" /\ answer'[e] # 200
        BY <1>1, <2>1
      <3>2. at[e] = "send" \/ e \in cut
        BY <1>1, <2>1 DEF Active, Places
      <3>3. at[e] = "send" => RequestOf(e) = "sending"
        BY DEF RequestOf
      <3>4. RequestOf(e)' = "refused"
        BY <3>1 DEF RequestOf
      <3>5. QED
        BY <3>2, <3>3, <3>4
    <2>2. CASE ~Active(e)
      <3>1. at'[e] = at[e] /\ answer'[e] = answer[e] /\ at[e] \in {"none", "done"}
        BY <1>1, <2>2 DEF Active
      <3>2. e \notin cut /\ RequestOf(e) # "sending" /\ RequestOf(e)' = RequestOf(e)
        BY <3>1 DEF RequestOf
      <3>3. QED
        BY <3>2
    <2>3. QED
      BY <2>1, <2>2
  <1> HIDE DEF cut
  <1>4. requestOf' = [r \in Events |-> IF requestOf[r] = "sending" \/ r \in cut
                                       THEN "refused" ELSE requestOf[r]]
    BY <1>3 DEF requestOf
  <1>5. QED
    BY <1>1, <1>2, <1>4 DEF Intake!Lose

LEMMA IntakeStep ==
  ASSUME ReceiverInv, [Next]_vars
  PROVE  [Intake!Next]_(Intake!intakeVars)
  <1>1. CASE (\E k \in CommitKinds : Push(k)) \/ OtherEvent
    BY <1>1, SentMaps DEF Push, OtherEvent
  <1>2. ASSUME NEW e \in Events, Validate(e)
        PROVE  [Intake!Next]_(Intake!intakeVars)
    <2>1. events[e].type \in EventTypes
      BY <1>2, EventOfHandler DEF Validate
    <2>2. Goto(e, "commit") \/ Reply(e, 0) \/ Reply(e, 400) \/ Reply(e, 418)
      BY <1>2, <2>1 DEF Validate, EventTypes
    <2>3. at[e] = "validate" /\ UNCHANGED channel
      BY <1>2 DEF Validate
    <2>4. CASE Goto(e, "commit")
      BY <2>3, <2>4, GotoMaps
    <2>5. CASE Reply(e, 0) \/ Reply(e, 400) \/ Reply(e, 418)
      BY <2>3, <2>5, ReplyMaps
    <2>6. QED
      BY <2>2, <2>4, <2>5
  <1>3. ASSUME NEW e \in Events, GetCommitSHA(e) \/ SkipUnread(e)
        PROVE  [Intake!Next]_(Intake!intakeVars)
    BY <1>3, GotoMaps DEF GetCommitSHA, SkipUnread
  <1>4. ASSUME NEW e \in Events, CheckSkip(e)
        PROVE  [Intake!Next]_(Intake!intakeVars)
    BY <1>4, GotoMaps, ReplyMaps DEF CheckSkip
  <1>5. ASSUME NEW e \in Events, Configure(e)
        PROVE  [Intake!Next]_(Intake!intakeVars)
    BY <1>5, GotoMaps, ReplyMaps DEF Configure
  <1>6. ASSUME NEW e \in Events, CallFails(e)
        PROVE  [Intake!Next]_(Intake!intakeVars)
    BY <1>6, ReplyMaps DEF CallFails
  <1>7. ASSUME NEW e \in Events, Send(e)
        PROVE  [Intake!Next]_(Intake!intakeVars)
    BY <1>7, SendMaps
  <1>8. CASE Schedule
    <2>1. requestOf' = requestOf
      BY <1>8 DEF Schedule, requestOf, RequestOf
    <2>2. QED
      BY <1>8, <2>1 DEF Schedule, Intake!Next, Intake!Take
  <1>9. CASE (\E e \in Events : StartRun(e) \/ CancelRun(e)) \/ UNCHANGED vars
    BY <1>9, SameRequests DEF StartRun, CancelRun, RequestOf
  <1>10. CASE Restart
    BY <1>10, RestartMaps DEF Intake!Next
  <1>11. QED
    BY <1>1, <1>2, <1>3, <1>4, <1>5, <1>6, <1>7, <1>8, <1>9, <1>10 DEF Next, Handle

(* The receiver, call by call, implements the intake of triggers that the  *)
(* manager relies on: a request is accepted exactly when its trigger has   *)
(* entered the channel, for any number of handlers at once, and a restart  *)
(* accepts nothing.                                                        *)
THEOREM ReceiverTakesIn == Spec => Intake!Spec
  <1>1. Init => Intake!Init
    BY DEF Init, Intake!Init, requestOf, RequestOf
  <1>2. ReceiverInv /\ [Next]_vars => [Intake!Next]_(Intake!intakeVars)
    BY IntakeStep
  <1>3. QED
    BY <1>1, <1>2, ReceiverInvariant, PTL DEF Spec, Intake!Spec


-----------------------------------------------------------------------------
(* No push is left behind: the safety part of PushBuilt. *)

(***************************************************************************)
(* What the handler of a push event has established, and how it may end:   *)
(* its trigger is of the pushed commit, it fails or is cut off (answer 0), *)
(* or the commit is skipped.                                               *)
(***************************************************************************)
PushAnswered(e) ==
  /\ e \in DOMAIN events => at[e] # "none"
  /\ e \in DOMAIN events /\ events[e].type = "push" =>
       /\ events[e].commit \in 1..Tip
       /\ at[e] \in {"skip", "config", "send"} \/ answer[e] = 200 => sha[e] = events[e].commit
       /\ at[e] = "done" =>
            answer[e] \in {0, 200, 500} \/ (answer[e] = 418 /\ commit[events[e].commit] = "skip")

PushInv == ReceiverInv /\ \A e \in Events : PushAnswered(e)

(* The guards of Fairness's actions: a handler, the scheduler or the       *)
(* watcher has something to do that it is not kept from.                   *)
ReceiverCanStep ==
  \/ \E e \in Events : \/ at[e] \in {"validate", "commit", "skip", "config"}
                       \/ at[e] = "send" /\ Len(channel) < ChannelSize
  \/ channel # << >>
  \/ \E e \in Events : run[e] = "pending" /\ e \notin dropped

LEMMA PushKept ==
  ASSUME NEW d \in Events, PushAnswered(d), UNCHANGED <<commit, events>>,
         at'[d] = at[d], answer'[d] = answer[d], sha'[d] = sha[d]
  PROVE  PushAnswered(d)'
  BY DEF PushAnswered, Tip

(* A new event has not been looked at; the commits of earlier events are   *)
(* where they were on the branch.                                          *)
LEMMA PushArrives ==
  ASSUME PushInv, NEW type \in EventTypes, NEW c \in 0..MaxCommits, Sent(type, c),
         type = "push" => c \in 1..Tip', UNCHANGED <<answer, sha>>,
         Tip <= Tip', \A i \in 1..Tip : commit'[i] = commit[i], NEW d \in Events
  PROVE  PushAnswered(d)'
  <1>1. /\ d \in DOMAIN events' =>
             \/ d \in DOMAIN events /\ events'[d] = events[d] /\ at'[d] = at[d]
             \/ events'[d] = [type |-> type, commit |-> c] /\ at'[d] = "validate"
                   /\ at[d] = "none"
    BY SentArrival DEF PushInv
  <1>2. PushAnswered(d) /\ HandlerOf(d)
    BY DEF PushInv, ReceiverInv
  <1>3. Tip \in Nat /\ Tip' \in Nat
    BY DEF PushInv, ReceiverInv, TypeOK, Tip
  <1>4. CASE d \notin DOMAIN events'
    BY <1>4 DEF PushAnswered
  <1>5. CASE d \in DOMAIN events /\ events'[d] = events[d] /\ at'[d] = at[d]
    BY <1>2, <1>3, <1>5 DEF PushAnswered
  <1>6. CASE events'[d] = [type |-> type, commit |-> c] /\ at'[d] = "validate" /\ at[d] = "none"
    BY <1>2, <1>6 DEF PushAnswered, HandlerOf
  <1>7. QED
    BY <1>1, <1>4, <1>5, <1>6

LEMMA PushOfHandler ==
  ASSUME PushInv, NEW e \in Events, at[e] \notin {"none", "done"}, UNCHANGED <<commit, events>>,
         \A d \in Events \ {e} : at'[d] = at[d] /\ answer'[d] = answer[d] /\ sha'[d] = sha[d],
         events[e].type = "push" =>
           /\ at'[e] \in {"skip", "config", "send"} \/ answer'[e] = 200 => sha'[e] = events[e].commit
           /\ at'[e] = "done" =>
                answer'[e] \in {0, 200, 500} \/ (answer'[e] = 418 /\ commit[events[e].commit] = "skip"),
         at'[e] # "none"
  PROVE  \A d \in Events : PushAnswered(d)'
  <1>1. PushAnswered(e)'
    BY DEF PushInv, PushAnswered, Tip
  <1>2. ASSUME NEW d \in Events \ {e} PROVE PushAnswered(d)'
    BY PushKept DEF PushInv
  <1>3. QED
    BY <1>1, <1>2

LEMMA PushNext ==
  ASSUME PushInv, [Next]_vars
  PROVE  \A d \in Events : PushAnswered(d)'
  <1>0. ReceiverInv /\ TypeOK
    BY DEF PushInv, ReceiverInv
  <1>1. ASSUME NEW k \in CommitKinds, Push(k)
        PROVE  \A d \in Events : PushAnswered(d)'
    <2>1. /\ Tip < MaxCommits /\ commit' = Append(commit, k) /\ Sent("push", Tip + 1)
          /\ UNCHANGED <<answer, sha>>
      BY <1>1 DEF Push
    <2>2. PICK m \in Nat : m = Tip /\ m + 1 \in 0..MaxCommits
      BY <1>0, <2>1, ReceiverAssumption DEF TypeOK, Commits, Tip
    <2>3. Tip' = m + 1 /\ \A i \in 1..m : commit'[i] = commit[i]
      BY <1>0, <2>1, <2>2 DEF TypeOK, Tip
    <2>4. "push" \in EventTypes /\ m + 1 \in 1..Tip' /\ Tip <= Tip'
      BY <2>2, <2>3 DEF EventTypes
    <2>5. QED
      BY <2>1, <2>2, <2>3, <2>4, PushArrives
  <1>2. CASE OtherEvent
    <2>1. UNCHANGED <<commit, answer, sha>> /\ Tip' = Tip
      BY <1>2 DEF OtherEvent, Tip
    <2>2. PICK m \in Nat : m = Tip /\ m <= MaxCommits
      BY <1>0, ReceiverAssumption DEF TypeOK, Commits, Tip
    <2>3. PICK type \in EventTypes, c \in {0, m} : Sent(type, c) /\ type # "push"
      BY <1>2, <2>2 DEF OtherEvent, EventTypes
    <2>4. c \in 0..MaxCommits /\ Tip <= Tip'
      BY <2>1, <2>2, ReceiverAssumption
    <2>5. QED
      BY <2>1, <2>3, <2>4, PushArrives
  <1>3. ASSUME NEW e \in Events, Validate(e)
        PROVE  \A d \in Events : PushAnswered(d)'
    <2>1. at[e] = "validate" /\ UNCHANGED <<commit, events, sha>>
      BY <1>3 DEF Validate
    <2>2. events[e].type \in EventTypes
      BY <1>0, <2>1, EventOfHandler
    <2>3. CASE Goto(e, "commit")
      <3>1. /\ at'[e] = "commit" /\ answer' = answer
            /\ \A d \in Events \ {e} : at'[d] = at[d]
        BY <1>0, <2>3, GotoEffect DEF Places
      <3>2. answer[e] = 0
        BY <1>0, <2>1, NotBuilt
      <3>3. QED
        BY <2>1, <3>1, <3>2, PushOfHandler
    <2>4. ASSUME NEW code \in {0, 400, 418}, Reply(e, code), events[e].type # "push"
          PROVE  \A d \in Events : PushAnswered(d)'
      <3>1. /\ at'[e] = "done"
            /\ \A d \in Events \ {e} : at'[d] = at[d] /\ answer'[d] = answer[d]
        BY <1>0, <2>4, ReplyEffect
      <3>2. QED
        BY <2>1, <2>4, <3>1, PushOfHandler
    <2>5. \/ Goto(e, "commit")
          \/ events[e].type # "push" /\ (Reply(e, 0) \/ Reply(e, 400) \/ Reply(e, 418))
      BY <1>3, <2>2 DEF Validate, EventTypes
    <2>6. QED
      BY <2>3, <2>4, <2>5
  <1>4. ASSUME NEW e \in Events, GetCommitSHA(e)
        PROVE  \A d \in Events : PushAnswered(d)'
    <2>1. /\ at[e] = "commit" /\ UNCHANGED <<commit, events>> /\ Goto(e, "skip")
          /\ sha' = [sha EXCEPT ![e] = IF events[e].commit # 0 THEN events[e].commit ELSE Tip]
      BY <1>4 DEF GetCommitSHA
    <2>2. /\ at'[e] = "skip" /\ answer' = answer
          /\ \A d \in Events \ {e} : at'[d] = at[d]
      BY <1>0, <2>1, GotoEffect DEF Places
    <2>3. events[e].type = "push" => events[e].commit # 0
      BY <1>0, <2>1 DEF PushInv, PushAnswered, ReceiverInv, EventsKnown
    <2>4. \A d \in Events \ {e} : sha'[d] = sha[d]
      BY <1>0, <2>1 DEF TypeOK
    <2>5. events[e].type = "push" => sha'[e] = events[e].commit
      BY <1>0, <2>1, <2>3 DEF TypeOK
    <2>6. QED
      BY <2>1, <2>2, <2>4, <2>5, PushOfHandler
  <1>5. ASSUME NEW e \in Events, CheckSkip(e) \/ SkipUnread(e) \/ Configure(e)
        PROVE  \A d \in Events : PushAnswered(d)'
    <2>1. /\ at[e] \in {"skip", "config"} /\ UNCHANGED <<commit, events, sha>>
          /\ \/ Goto(e, "config") \/ Goto(e, "send") \/ Reply(e, 500)
             \/ Reply(e, 418) /\ commit[sha[e]] = "skip"
      BY <1>5 DEF CheckSkip, SkipUnread, Configure, ShouldSkip
    <2>2. events[e].type = "push" => sha[e] = events[e].commit
      BY <1>0, <2>1 DEF PushInv, PushAnswered, ReceiverInv, EventsKnown
    <2>3. CASE Goto(e, "config") \/ Goto(e, "send")
      <3>1. /\ at'[e] \in {"config", "send"} /\ answer' = answer
            /\ \A d \in Events \ {e} : at'[d] = at[d]
        BY <1>0, <2>3, GotoEffect DEF Places
      <3>2. QED
        BY <2>1, <2>2, <3>1, PushOfHandler
    <2>4. CASE Reply(e, 500) \/ (Reply(e, 418) /\ commit[sha[e]] = "skip")
      <3>1. /\ at'[e] = "done" /\ (answer'[e] = 500 \/ (answer'[e] = 418 /\ commit[sha[e]] = "skip"))
            /\ \A d \in Events \ {e} : at'[d] = at[d] /\ answer'[d] = answer[d]
        BY <1>0, <2>4, ReplyEffect
      <3>2. QED
        BY <2>1, <2>2, <3>1, PushOfHandler
    <2>5. QED
      BY <2>1, <2>3, <2>4
  <1>6. ASSUME NEW e \in Events, CallFails(e)
        PROVE  \A d \in Events : PushAnswered(d)'
    <2>1. at[e] \in {"commit", "config"} /\ UNCHANGED <<commit, events, sha>> /\ Reply(e, 500)
      BY <1>6 DEF CallFails
    <2>2. /\ at'[e] = "done" /\ answer'[e] = 500
          /\ \A d \in Events \ {e} : at'[d] = at[d] /\ answer'[d] = answer[d]
      BY <1>0, <2>1, ReplyEffect
    <2>3. QED
      BY <2>1, <2>2, PushOfHandler
  <1>7. ASSUME NEW e \in Events, Send(e)
        PROVE  \A d \in Events : PushAnswered(d)'
    <2>1. at[e] = "send" /\ UNCHANGED <<commit, events, sha>> /\ Reply(e, 200)
      BY <1>7 DEF Send
    <2>2. /\ at'[e] = "done" /\ answer'[e] = 200
          /\ \A d \in Events \ {e} : at'[d] = at[d] /\ answer'[d] = answer[d]
      BY <1>0, <2>1, ReplyEffect
    <2>3. events[e].type = "push" => sha[e] = events[e].commit
      BY <1>0, <2>1 DEF PushInv, PushAnswered, ReceiverInv, EventsKnown
    <2>4. QED
      BY <2>1, <2>2, <2>3, PushOfHandler
  <1>8. CASE Schedule \/ (\E e \in Events : StartRun(e) \/ CancelRun(e)) \/ UNCHANGED vars
    <2>1. UNCHANGED <<commit, events, at, answer, sha>>
      BY <1>8 DEF Schedule, StartRun, CancelRun
    <2>2. QED
      BY <2>1, PushKept DEF PushInv
  <1>9. CASE Restart
    <2>1. /\ UNCHANGED <<commit, events, answer>>
          /\ \A e \in Events : at'[e] = IF Active(e) THEN "done" ELSE at[e]
          /\ \A e \in Events : sha'[e] = IF Active(e) THEN 0 ELSE sha[e]
          /\ \A e \in Events : Active(e) => answer[e] = 0
      BY <1>0, <1>9, RestartEffect
    <2>2. ASSUME NEW e \in Events PROVE PushAnswered(e)'
      <3>1. PushAnswered(e)
        BY DEF PushInv
      <3>2. CASE Active(e)
        BY <2>1, <3>1, <3>2 DEF PushAnswered, Tip
      <3>3. CASE ~Active(e)
        <4>1. at'[e] = at[e] /\ answer'[e] = answer[e] /\ sha'[e] = sha[e]
          BY <2>1, <3>3
        <4>2. QED
          BY <2>1, <3>1, <4>1, PushKept
      <3>4. QED
        BY <3>2, <3>3
    <2>3. QED
      BY <2>2
  <1>10. QED
    BY <1>1, <1>2, <1>3, <1>4, <1>5, <1>6, <1>7, <1>8, <1>9 DEF Next, Handle

LEMMA PushInvariant == Spec => []PushInv
  <1>1. Init => PushInv
    BY ReceiverInit DEF Init, PushInv, PushAnswered
  <1>2. PushInv /\ [Next]_vars => PushInv'
    <2>1. PushInv => ReceiverInv
      BY DEF PushInv
    <2>2. QED
      BY <2>1, ReceiverNext, PushNext DEF PushInv
  <1>3. QED
    BY <1>1, <1>2, PTL DEF Spec

(***************************************************************************)
(* Where handlers, scheduler and watcher can do no more, every push that   *)
(* does not ask to be skipped is part of what a run checked out, or it is  *)
(* known how it was lost: an answer that is an error or none, a trigger    *)
(* dropped at a failing call or a restart, a run that was cancelled.  With *)
(* any number of handlers that wait for the channel none stays behind.     *)
(***************************************************************************)
THEOREM PushesServed ==
  Spec => [](~ReceiverCanStep => \A e \in Events : Pushed(e) => Covered(e) \/ Forgone(e))
  <1>1. ASSUME PushInv, ~ReceiverCanStep, NEW e \in Events, Pushed(e), ~Forgone(e)
        PROVE  Covered(e)
    <2>0. ReceiverInv /\ TypeOK /\ TriggeredOnce /\ HandlerOf(e) /\ PushAnswered(e) /\ RunOf(e)
      BY <1>1 DEF PushInv, ReceiverInv, RunsKnown
    <2>1. channel = << >> /\ Elements(channel) = {} /\ Len(channel) < ChannelSize
      <3>1. channel = << >>
        BY <1>1 DEF ReceiverCanStep
      <3>2. DOMAIN channel = {} /\ Len(channel) = 0
        BY <3>1
      <3>3. QED
        BY <3>1, <3>2, ReceiverAssumption DEF Elements
    <2>2. /\ e \in DOMAIN events /\ events[e].type = "push"
          /\ PushedCommit(e) = events[e].commit /\ commit[events[e].commit] # "skip"
      <3>1. 0 \notin DOMAIN commit
        BY <2>0 DEF TypeOK
      <3>2. QED
        BY <1>1, <3>1 DEF Pushed, PushedCommit
    <2>3. at[e] = "done"
      <3>1. at[e] \in Places \ {"none"}
        BY <2>0, <2>2 DEF TypeOK, PushAnswered
      <3>2. QED
        BY <1>1, <2>1, <3>1 DEF ReceiverCanStep, Places
    <2>4. answer[e] = 200 /\ sha[e] = events[e].commit
      BY <1>1, <2>0, <2>2, <2>3 DEF PushAnswered, Forgone
    <2>5. built[e] # 0
      <3>1. e \in Triggers \cup dropped /\ e \notin dropped
        BY <1>1, <2>0, <2>4 DEF TriggeredOnce, Forgone
      <3>2. run[e] \in RunStates \ {"none", "cancelled"}
        BY <1>1, <2>0, <2>1, <3>1 DEF Triggers, Forgone, TypeOK
      <3>3. run[e] # "pending"
        BY <1>1, <3>1 DEF ReceiverCanStep
      <3>4. QED
        BY <2>0, <3>2, <3>3 DEF RunStates, RunOf
    <2>6. sha[e] <= config[e] /\ config[e] <= built[e]
      BY <2>0, <2>4, <2>5 DEF HandlerOf
    <2>7. sha[e] \in Nat /\ config[e] \in Nat /\ built[e] \in Nat
      BY <2>0 DEF TypeOK, Tip
    <2>8. QED
      BY <2>2, <2>4, <2>6, <2>7 DEF Covered
  <1>2. PushInv =>
          (~ReceiverCanStep => \A e \in Events : Pushed(e) => Covered(e) \/ Forgone(e))
    BY <1>1
  <1>3. QED
    BY <1>2, PushInvariant, PTL

=============================================================================
