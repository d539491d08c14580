-------------------------- MODULE ProjectLoaderProofs --------------------------
(***************************************************************************)
(* Proofs about LoadConfigFromDB for every set of projects and configs and *)
(* every number of table writes: the model is well typed, and when the     *)
(* feedData loop ran without a callback in between, the store ends equal   *)
(* to the table.                                                           *)
(*                                                                         *)
(* The argument follows each project separately.  While the callback is    *)
(* not running during the loop, the table's value of a project is always   *)
(* recoverable from what is still to be applied: the last change queued    *)
(* for it, when there is one; otherwise its feedData row, when the loop    *)
(* has not applied it yet; otherwise the store already holds it.           *)
(***************************************************************************)
EXTENDS ProjectLoader, TLAPS

\* The store agrees with the table on project p, unless p's row does not parse.
Matches(p) == db[p] \notin Malformed => store[p] = db[p]

\* A change to p is queued for the callback.
Mentioned(p) == \E i \in 1..Len(events) : events[i].project = p

\* events[i] is the last change queued for p, and it carries p's value.
LastFor(p, i) ==
    /\ i \in 1..Len(events)
    /\ events[i].project = p
    /\ events[i].config = db[p]
    /\ \A j \in (i + 1)..Len(events) : events[j].project # p

\* p's row is still in feedData with the table's value, or no row of p is
\* left and the store agrees with the table.
FeedOrStore(p) ==
    \/ \E r \in feed : r.project = p /\ r.config = db[p]
    \/ (\A r \in feed : r.project # p) /\ Matches(p)

\* Where the table's value of p is to be found.
Settled(p) ==
    /\ Mentioned(p) => \E i \in 1..Len(events) : LastFor(p, i)
    /\ ~Mentioned(p) => FeedOrStore(p)

\* A queued delete carries no config.
EventsWF == \A i \in 1..Len(events) : events[i].type = "delete" => events[i].config = Absent

\* The inductive invariant.
PInv ==
    /\ TypeOK
    /\ EventsWF
    /\ ~Subscribed => /\ events = <<>> /\ feed = {} /\ ~raced
                      /\ \A p \in Projects : store[p] = Absent
    /\ pc = "done" => feed = {}
    /\ \A r1, r2 \in feed : r1.project = r2.project => r1 = r2
    /\ (~raced /\ Subscribed) => \A p \in Projects : Settled(p)

-----------------------------------------------------------------------------
(* setConfig on the store.                                                 *)

\* setConfig keeps the store a map from projects to parsed configs or Absent.
LEMMA SetConfigTyped ==
    ASSUME NEW s \in [Projects -> Configs \cup {Absent}], NEW action,
           NEW p \in Projects, NEW c \in Values
    PROVE  SetConfig(s, action, p, c) \in [Projects -> Configs \cup {Absent}]
BY DEF SetConfig, Values

\* What setConfig does to one project: a delete removes it, a config that
\* parses is stored, one that does not leaves it, and other projects are
\* left alone.
LEMMA SetConfigEffect ==
    ASSUME NEW s \in [Projects -> Configs \cup {Absent}], NEW action,
           NEW p \in Projects, NEW c, NEW q \in Projects
    PROVE  /\ q # p => SetConfig(s, action, p, c)[q] = s[q]
           /\ action = "delete" => SetConfig(s, action, p, c)[p] = Absent
           /\ action # "delete" /\ c \notin Malformed => SetConfig(s, action, p, c)[p] = c
           /\ action # "delete" /\ c \in Malformed => SetConfig(s, action, p, c)[p] = s[p]
BY DEF SetConfig

-----------------------------------------------------------------------------
(* Type correctness.                                                       *)

LEMMA TypeOKInit == Init => TypeOK
<1> SUFFICES ASSUME Init PROVE TypeOK
  OBVIOUS
<1>1. db \in [Projects -> Values] /\ store \in [Projects -> Configs \cup {Absent}]
  BY DEF Init, Values
<1>2. events \in Seq(Events) /\ feed = {}
  BY DEF Init
<1>3. writes \in 0..MaxWrites
  BY ProjectLoaderAssumption DEF Init
<1>. QED  BY <1>1, <1>2, <1>3 DEF Init, TypeOK

\* A change made to the table keeps the queue and the write count typed.
LEMMA ChangeTyped ==
    ASSUME TypeOK, NEW e \in Events, Change(e)
    PROVE  events' \in Seq(Events) /\ writes' \in 0..MaxWrites
<1>1. events' \in Seq(Events)
  BY DEF Change, TypeOK
<1>2. writes' \in 0..MaxWrites
  BY ProjectLoaderAssumption DEF Change, TypeOK
<1>. QED  BY <1>1, <1>2

LEMMA TypeOKStep == TypeOK /\ [Next]_vars => TypeOK'
<1> SUFFICES ASSUME TypeOK, [Next]_vars PROVE TypeOK'
  OBVIOUS
<1>1. CASE CrudSetConfig \/ RealtimeSetConfig \/ LoopDone
  BY <1>1 DEF CrudSetConfig, RealtimeSetConfig, LoopDone, TypeOK
<1>2. CASE DoRealtimeSubscribe
  BY <1>2 DEF DoRealtimeSubscribe, TypeOK, Values
<1>3. ASSUME NEW row \in feed, ApplyFeedRow(row) PROVE TypeOK'
  <2>1. row.config \in Values /\ row.project \in Projects
    BY DEF TypeOK, Values
  <2>. QED  BY <1>3, <2>1, SetConfigTyped DEF ApplyFeedRow, TypeOK
<1>4. CASE Callback
  <2>1. events # <<>> /\ Head(events) \in Events
    BY <1>4 DEF Callback, TypeOK
  <2>2. Head(events).config \in Values /\ Head(events).project \in Projects
    BY <2>1 DEF Events
  <2>3. store' \in [Projects -> Configs \cup {Absent}]
    BY <1>4, <2>2, SetConfigTyped DEF Callback, TypeOK
  <2>4. events' \in Seq(Events)
    BY <1>4, <2>1 DEF Callback, TypeOK
  <2>. QED  BY <1>4, <2>3, <2>4 DEF Callback, TypeOK
<1>5. ASSUME NEW p \in Projects, NEW c \in Configs \cup Malformed, DBWrite(p, c)
      PROVE  TypeOK'
  <2>1. [type |-> IF db[p] = Absent THEN "insert" ELSE "update",
         project |-> p, config |-> c] \in Events
    BY DEF Events, Types, Values
  <2>2. db' \in [Projects -> Values]
    BY <1>5 DEF DBWrite, TypeOK, Values
  <2>. QED  BY <1>5, <2>1, <2>2, ChangeTyped DEF DBWrite, Change, TypeOK
<1>6. ASSUME NEW p \in Projects, DBDelete(p) PROVE TypeOK'
  <2>1. [type |-> "delete", project |-> p, config |-> Absent] \in Events
    BY DEF Events, Types, Values
  <2>2. db' \in [Projects -> Values]
    BY <1>6 DEF DBDelete, TypeOK, Values
  <2>. QED  BY <1>6, <2>1, <2>2, ChangeTyped DEF DBDelete, Change, TypeOK
<1>7. CASE UNCHANGED vars
  BY <1>7 DEF vars, TypeOK
<1>. QED  BY <1>1, <1>2, <1>3, <1>4, <1>5, <1>6, <1>7 DEF Next

(***************************************************************************)
(* Every reachable state is well typed; in particular the store never      *)
(* holds a config that json.Unmarshal rejected (setConfig drops it).       *)
(***************************************************************************)
THEOREM TypeCorrect == Spec => []TypeOK
BY TypeOKInit, TypeOKStep, PTL DEF Spec

-----------------------------------------------------------------------------
(* The inductive invariant PInv, one lemma per step of the loader, of the  *)
(* callback and of the other writers.                                      *)

LEMMA PInvInit == Init => PInv
<1> SUFFICES ASSUME Init PROVE PInv
  OBVIOUS
<1>1. TypeOK
  BY TypeOKInit
<1>2. ~Subscribed /\ events = <<>> /\ feed = {} /\ ~raced
  BY DEF Init, Subscribed
<1>. QED  BY <1>1, <1>2 DEF Init, PInv, EventsWF

\* Every step of the model is a step of Next, so it keeps TypeOK.
LEMMA StepTyped ==
    ASSUME TypeOK, Next
    PROVE  TypeOK'
BY TypeOKStep

\* CrudSetConfig and RealtimeSetConfig: nothing is subscribed before or after.
LEMMA SetupStep ==
    ASSUME PInv, CrudSetConfig \/ RealtimeSetConfig
    PROVE  PInv'
<1>1. TypeOK'
  BY StepTyped DEF PInv, Next
<1>2. ~Subscribed /\ ~Subscribed'
  BY DEF CrudSetConfig, RealtimeSetConfig, Subscribed
<1>. QED  BY <1>1, <1>2 DEF PInv, EventsWF, CrudSetConfig, RealtimeSetConfig

\* DoRealtimeSubscribe: the snapshot holds one row per project in the table,
\* with its value, and nothing is queued yet.
LEMMA SubscribeStep ==
    ASSUME PInv, DoRealtimeSubscribe
    PROVE  PInv'
<1>1. TypeOK'
  BY StepTyped DEF PInv, Next
<1>2. /\ events = <<>> /\ ~raced /\ \A p \in Projects : store[p] = Absent
      /\ UNCHANGED <<db, store, events, raced>>
  BY DEF PInv, DoRealtimeSubscribe, Subscribed
<1>3. CASE pc' = "failed"
  BY <1>1, <1>2, <1>3 DEF PInv, DoRealtimeSubscribe, Subscribed, EventsWF
<1>4. CASE pc' = "loop"
  <2>1. feed' = {[project |-> p, config |-> db[p]] :
                   p \in {q \in Projects : db[q] # Absent}}
    BY <1>4 DEF DoRealtimeSubscribe
  <2>2. \A r1, r2 \in feed' : r1.project = r2.project => r1 = r2
    BY <2>1
  <2>3. ASSUME NEW p \in Projects PROVE Settled(p)'
    <3>1. ~Mentioned(p)'
      BY <1>2 DEF Mentioned
    <3>2. CASE db[p] # Absent
      <4>1. [project |-> p, config |-> db[p]] \in feed' /\ db' = db
        BY <1>2, <2>1, <3>2
      <4>. QED  BY <3>1, <4>1 DEF Settled, FeedOrStore
    <3>3. CASE db[p] = Absent
      <4>1. \A r \in feed' : r.project # p
        BY <2>1, <3>3
      <4>2. Matches(p)'
        BY <1>2, <3>3 DEF Matches
      <4>. QED  BY <3>1, <4>1, <4>2 DEF Settled, FeedOrStore
    <3>. QED  BY <3>2, <3>3
  <2>4. Subscribed' /\ pc' # "done" /\ ~raced' /\ events' = <<>>
    BY <1>2, <1>4 DEF Subscribed
  <2>. QED  BY <1>1, <2>2, <2>3, <2>4 DEF PInv, EventsWF
<1>. QED  BY <1>3, <1>4 DEF DoRealtimeSubscribe

\* LoopDone: feedData is used up, and the loader returns.
LEMMA LoopDoneStep ==
    ASSUME PInv, LoopDone
    PROVE  PInv'
<1>1. TypeOK'
  BY StepTyped DEF PInv, Next
<1>2. Subscribed /\ Subscribed'
  BY DEF LoopDone, Subscribed
<1>3. ASSUME NEW p \in Projects PROVE Settled(p)' = Settled(p)
  BY DEF LoopDone, Settled, Mentioned, LastFor, FeedOrStore, Matches
<1>. QED  BY <1>1, <1>2, <1>3 DEF PInv, LoopDone, EventsWF

\* One iteration of the feedData loop: the row applied carries its
\* project's value unless a change to that project is queued, and it is the
\* only row of its project.
LEMMA FeedRowStep ==
    ASSUME PInv, NEW row \in feed, ApplyFeedRow(row)
    PROVE  PInv'
<1>1. TypeOK'
  BY StepTyped DEF PInv, Next
<1>2. /\ pc = "loop" /\ Subscribed /\ Subscribed'
      /\ UNCHANGED <<db, pc, events, raced>>
      /\ feed' = feed \ {row}
      /\ store' = SetConfig(store, Initial, row.project, row.config)
  BY DEF ApplyFeedRow, Subscribed
<1>3. \A r1, r2 \in feed' : r1.project = r2.project => r1 = r2
  BY <1>2 DEF PInv
<1>4. ASSUME ~raced', NEW p \in Projects PROVE Settled(p)'
  <2>1. Settled(p)
    BY <1>2, <1>4 DEF PInv
  <2>2. /\ Mentioned(p)' = Mentioned(p)
        /\ \A i \in 1..Len(events) : LastFor(p, i)' = LastFor(p, i)
    BY <1>2 DEF Mentioned, LastFor
  <2>3. CASE Mentioned(p)
    BY <2>1, <2>2, <2>3, <1>2 DEF Settled
  <2>4. CASE ~Mentioned(p)
    <3>1. FeedOrStore(p)
      BY <2>1, <2>4 DEF Settled
    <3>2. /\ store \in [Projects -> Configs \cup {Absent}]
          /\ row.project \in Projects
          /\ Initial # "delete"
      BY DEF PInv, TypeOK, Initial
    <3>3. CASE p = row.project
      <4>1. row.config = db[p]
        BY <3>1, <3>3 DEF FeedOrStore, PInv
      <4>2. \A r \in feed' : r.project # p
        BY <1>2, <3>3 DEF PInv
      <4>3. Matches(p)'
        BY <1>2, <3>2, <3>3, <4>1, SetConfigEffect DEF Matches
      <4>. QED  BY <2>2, <2>4, <4>2, <4>3 DEF Settled, FeedOrStore
    <3>4. CASE p # row.project
      <4>1. store'[p] = store[p]
        BY <1>2, <3>2, <3>4, SetConfigEffect
      <4>2. \A r \in feed : r.project = p => r \in feed'
        BY <1>2, <3>4
      <4>3. FeedOrStore(p)'
        BY <1>2, <3>1, <4>1, <4>2 DEF FeedOrStore, Matches
      <4>. QED  BY <2>2, <2>4, <4>3 DEF Settled
    <3>. QED  BY <3>3, <3>4
  <2>. QED  BY <2>3, <2>4
<1>. QED  BY <1>1, <1>2, <1>3, <1>4 DEF PInv, EventsWF

\* The callback on the oldest queued change, once the loader has returned:
\* a project whose last change it is now holds that change; for every other
\* project the last change moves one place towards the head.
LEMMA CallbackStep ==
    ASSUME PInv, Callback
    PROVE  PInv'
<1> DEFINE e == Head(events)
<1>1. TypeOK'
  BY StepTyped DEF PInv, Next
<1>2. /\ events \in Seq(Events) /\ Len(events) >= 1 /\ e = events[1]
      /\ events' = Tail(events)
      /\ Len(events') = Len(events) - 1
      /\ \A k \in 1..Len(events') : events'[k] = events[k + 1]
      /\ store' = SetConfig(store, e.type, e.project, e.config)
      /\ UNCHANGED <<db, pc, feed>>
      /\ Subscribed /\ Subscribed'
  BY DEF Callback, PInv, TypeOK, Subscribed
<1>3. EventsWF'
  BY <1>2 DEF PInv, EventsWF
<1>4. ASSUME ~raced', NEW p \in Projects PROVE Settled(p)'
  <2>1. ~raced /\ pc = "done" /\ feed = {}
    BY <1>4, <1>2 DEF Callback, PInv, Subscribed
  <2>2. Settled(p)
    BY <1>2, <2>1 DEF PInv
  <2>3. /\ store \in [Projects -> Configs \cup {Absent}]
        /\ e \in Events
        /\ e.type = "delete" => e.config = Absent
    BY <1>2 DEF PInv, TypeOK, EventsWF
  <2>4. e.project \in Projects
    BY <2>3 DEF Events
  <2>5. CASE Mentioned(p)'
    <3>1. PICK k \in 1..Len(events') : events'[k].project = p
      BY <2>5 DEF Mentioned
    <3>2. Mentioned(p)
      BY <1>2, <3>1 DEF Mentioned
    <3>3. PICK i \in 1..Len(events) : LastFor(p, i)
      BY <2>2, <3>2 DEF Settled
    <3>4. i >= k + 1
      BY <1>2, <3>1, <3>3 DEF LastFor
    <3>5. LastFor(p, i - 1)'
      BY <1>2, <3>3, <3>4 DEF LastFor
    <3>. QED  BY <1>2, <3>4, <3>5, <2>5 DEF Settled
  <2>6. CASE ~Mentioned(p)'
    <3>1. CASE p = e.project
      <4>1. Mentioned(p)
        BY <1>2, <3>1 DEF Mentioned
      <4>2. PICK i \in 1..Len(events) : LastFor(p, i)
        BY <2>2, <4>1 DEF Settled
      <4>3. i = 1
        <5>1. SUFFICES ASSUME i # 1 PROVE FALSE
          OBVIOUS
        <5>2. i - 1 \in 1..Len(events') /\ events'[i - 1] = events[i]
          BY <1>2, <4>2, <5>1 DEF LastFor
        <5>3. events'[i - 1].project = p
          BY <4>2, <5>2 DEF LastFor
        <5>. QED  BY <2>6, <5>2, <5>3 DEF Mentioned
      <4>4. e.config = db[p]
        BY <1>2, <4>2, <4>3 DEF LastFor
      <4>5. Matches(p)'
        BY <1>2, <2>3, <2>4, <3>1, <4>4, SetConfigEffect DEF Matches
      <4>. QED  BY <1>2, <2>1, <2>6, <4>5 DEF Settled, FeedOrStore
    <3>2. CASE p # e.project
      <4>1. ~Mentioned(p)
        BY <1>2, <2>6, <3>2 DEF Mentioned
      <4>2. Matches(p)
        BY <2>1, <2>2, <4>1 DEF Settled, FeedOrStore
      <4>3. store'[p] = store[p]
        BY <1>2, <2>3, <2>4, <3>2, SetConfigEffect
      <4>. QED  BY <1>2, <2>1, <2>6, <4>2, <4>3 DEF Settled, FeedOrStore, Matches
    <3>. QED  BY <3>1, <3>2
  <2>. QED  BY <2>5, <2>6
<1>. QED  BY <1>1, <1>2, <1>3, <1>4 DEF PInv, Callback

\* A change another writer makes: once subscribed it is queued last, so it
\* becomes the last change of its project and carries the table's new value.
LEMMA ChangeStep ==
    ASSUME PInv, TypeOK', NEW e \in Events, Change(e),
           db' = [db EXCEPT ![e.project] = e.config],
           e.type = "delete" => e.config = Absent
    PROVE  PInv'
<1>1. /\ UNCHANGED <<store, pc, feed, raced>>
      /\ Subscribed' = Subscribed
      /\ e.project \in Projects
      /\ db \in [Projects -> Values]
  BY DEF Change, Subscribed, Events, PInv, TypeOK
<1>2. CASE ~Subscribed
  BY <1>1, <1>2 DEF Change, PInv, EventsWF
<1>3. CASE Subscribed
  <2>1. /\ events \in Seq(Events)
        /\ events' = Append(events, e)
        /\ Len(events') = Len(events) + 1
        /\ events'[Len(events) + 1] = e
        /\ \A k \in 1..Len(events) : events'[k] = events[k]
    BY <1>3 DEF Change, PInv, TypeOK
  <2>2. EventsWF'
    BY <2>1 DEF PInv, EventsWF
  <2>3. ASSUME ~raced', NEW p \in Projects PROVE Settled(p)'
    <3>1. Settled(p)
      BY <1>1, <1>3, <2>3 DEF PInv
    <3>2. CASE p = e.project
      <4>0. PICK n \in Nat : n = Len(events) + 1
        BY <2>1
      <4>1. db'[p] = e.config
        BY <1>1, <3>2
      <4>2. LastFor(p, n)'
        BY <2>1, <3>2, <4>0, <4>1 DEF LastFor
      <4>3. Mentioned(p)'
        BY <2>1, <3>2 DEF Mentioned
      <4>4. n \in 1..Len(events')
        BY <2>1, <4>0
      <4>. QED  BY <4>2, <4>3, <4>4 DEF Settled
    <3>3. CASE p # e.project
      <4>1. db'[p] = db[p]
        BY <1>1, <3>3
      <4>2. Mentioned(p)' = Mentioned(p)
        BY <2>1, <3>3 DEF Mentioned
      <4>3. \A i \in 1..Len(events) : LastFor(p, i)' = LastFor(p, i)
        BY <2>1, <3>3, <4>1 DEF LastFor
      <4>4. FeedOrStore(p)' = FeedOrStore(p)
        BY <1>1, <4>1 DEF FeedOrStore, Matches
      <4>5. Mentioned(p) => \E i \in 1..Len(events') : LastFor(p, i)'
        BY <2>1, <3>1, <4>3 DEF Settled
      <4>. QED  BY <3>1, <4>2, <4>4, <4>5 DEF Settled
    <3>. QED  BY <3>2, <3>3
  <2>. QED  BY <1>1, <1>3, <2>2, <2>3 DEF PInv
<1>. QED  BY <1>2, <1>3

LEMMA PInvStep == PInv /\ [Next]_vars => PInv'
<1> SUFFICES ASSUME PInv, [Next]_vars PROVE PInv'
  OBVIOUS
<1>1. CASE CrudSetConfig \/ RealtimeSetConfig
  BY <1>1, SetupStep
<1>2. CASE DoRealtimeSubscribe
  BY <1>2, SubscribeStep
<1>3. ASSUME NEW row \in feed, ApplyFeedRow(row) PROVE PInv'
  BY <1>3, FeedRowStep
<1>4. CASE LoopDone
  BY <1>4, LoopDoneStep
<1>5. CASE Callback
  BY <1>5, CallbackStep
<1>6. ASSUME NEW p \in Projects, NEW c \in Configs \cup Malformed, DBWrite(p, c)
      PROVE  PInv'
  <2> DEFINE e == [type |-> IF db[p] = Absent THEN "insert" ELSE "update",
                   project |-> p, config |-> c]
  <2>1. e \in Events /\ e.type # "delete"
    BY DEF Events, Types, Values
  <2>2. TypeOK'
    BY <1>6, StepTyped DEF PInv, Next
  <2>. QED  BY <1>6, <2>1, <2>2, ChangeStep DEF DBWrite
<1>7. ASSUME NEW p \in Projects, DBDelete(p) PROVE PInv'
  <2> DEFINE e == [type |-> "delete", project |-> p, config |-> Absent]
  <2>1. e \in Events
    BY DEF Events, Types, Values
  <2>2. TypeOK'
    BY <1>7, StepTyped DEF PInv, Next
  <2>. QED  BY <1>7, <2>1, <2>2, ChangeStep DEF DBDelete
<1>8. CASE UNCHANGED vars
  BY <1>8 DEF vars, PInv, TypeOK, EventsWF, Subscribed, Settled, Mentioned,
              LastFor, FeedOrStore, Matches
<1>. QED  BY <1>1, <1>2, <1>3, <1>4, <1>5, <1>6, <1>7, <1>8 DEF Next

\* The invariant gives the property: when the loader has returned and the
\* queue is empty, nothing is pending, so the store agrees with the table.
LEMMA PInvLoaded == PInv => LoadedWhenUnraced
<1> SUFFICES ASSUME PInv, Quiet, ~raced, NEW p \in Projects, db[p] \notin Malformed
             PROVE  store[p] = db[p]
  BY DEF LoadedWhenUnraced
<1>1. Subscribed /\ feed = {} /\ events = <<>>
  BY DEF Quiet, Subscribed, PInv
<1>2. ~Mentioned(p)
  BY <1>1 DEF Mentioned
<1>. QED  BY <1>1, <1>2 DEF PInv, Settled, FeedOrStore, Matches

(***************************************************************************)
(* For every set of projects and configs and every number of writes to     *)
(* the config table: when LoadConfigFromDB has returned, the callback has  *)
(* caught up, and no callback ran while the feedData loop was applying the *)
(* snapshot, the gateway holds the table's config for every project whose  *)
(* row parses, and no deleted project.                                     *)
(***************************************************************************)
THEOREM LoadedWhenUnracedHolds == Spec => []LoadedWhenUnraced
<1>1. Spec => []PInv
  BY PInvInit, PInvStep, PTL DEF Spec
<1>. QED  BY <1>1, PInvLoaded, PTL

====
