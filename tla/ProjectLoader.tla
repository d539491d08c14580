--------------------------- MODULE ProjectLoader ---------------------------
(***************************************************************************)
(* Projects.LoadConfigFromDB (utils/projects/load.go): the gateway loads   *)
(* the project configs of an account from the config table of a database.*)
(* It configures the crud and realtime modules of the space-cloud project, *)
(* subscribes to the config table with a callback, and then applies the   *)
(* rows the subscription returned (feedData) one by one with setConfig.   *)
(* The callback runs on the subscription's goroutine as soon as            *)
(* DoRealtimeSubscribe has registered it, concurrently with that loop.     *)
(*                                                                         *)
(* Other writers change the table at any time (DBWrite, DBDelete); once    *)
(* the subscription exists each change is queued, in order, for the        *)
(* callback.  A config is a model value; the ones in Malformed are rows    *)
(* json.Unmarshal rejects.                                                 *)
(***************************************************************************)
EXTENDS Naturals, Sequences

CONSTANTS
    Projects,   \* project ids in the config table of the account
    Configs,    \* config strings that parse
    Malformed,  \* config strings json.Unmarshal rejects
    MaxWrites   \* the number of changes other writers make to the table

ASSUME ProjectLoaderAssumption == MaxWrites \in Nat

\* No row, or no project in the store.
Absent == "absent"
\* The FeedData types the callback and setConfig tell apart.
Types == {"insert", "update", "delete"}
\* The type of the rows DoRealtimeSubscribe returns (utils.RealtimeInitial).
Initial == "initial"

VARIABLES
    db,      \* the config table: a config string per project, or Absent
    store,   \* the projects the gateway holds (StoreProject, DeleteProject)
    pc,      \* where LoadConfigFromDB is
    feed,    \* the rows of feedData the loop has still to apply
    events,  \* the changes queued for the callback, oldest first
    writes,  \* changes made to the table so far
    raced    \* a callback has run while the loop was still applying feedData

vars == <<db, store, pc, feed, events, writes, raced>>

\* The loader has subscribed: changes to the table reach the callback.
Subscribed == pc \in {"loop", "done"}

Init ==
    /\ db \in [Projects -> Configs \cup Malformed \cup {Absent}]
    /\ store = [p \in Projects |-> Absent]
    /\ pc = "crud"
    /\ feed = {}
    /\ events = <<>>
    /\ writes = 0
    /\ raced = FALSE

\* Mutant: the error of json.Unmarshal is not checked.
SetConfigNoParseCheck(s, action, p, c) ==
    IF action = "delete" THEN [s EXCEPT ![p] = Absent] ELSE [s EXCEPT ![p] = c]

(***************************************************************************)
(* setConfig(action, project, data), lines 70-86, applied to store s: a    *)
(* delete removes the project; otherwise a config that parses is stored    *)
(* and one that does not is dropped (the error is returned and logged).    *)
(***************************************************************************)
SetConfig(s, action, p, c) ==
    CASE action = "delete"                     -> [s EXCEPT ![p] = Absent]
      [] action # "delete" /\ c \in Malformed   -> s
      [] OTHER                                 -> [s EXCEPT ![p] = c]

\* state.Crud.SetConfig (line 23) and state.Realtime.SetConfig (line 27):
\* either may fail, and LoadConfigFromDB returns the error.
CrudSetConfig ==
    /\ pc = "crud"
    /\ pc' \in {"realtime", "failed"}
    /\ UNCHANGED <<db, store, feed, events, writes, raced>>

RealtimeSetConfig ==
    /\ pc = "realtime"
    /\ pc' \in {"subscribe", "failed"}
    /\ UNCHANGED <<db, store, feed, events, writes, raced>>

\* DoRealtimeSubscribe (lines 31-56) registers the callback and returns the
\* rows of the table as they are now, or fails.
DoRealtimeSubscribe ==
    /\ pc = "subscribe"
    /\ \/ /\ pc' = "loop"
          /\ feed' = {[project |-> p, config |-> db[p]] :
                         p \in {q \in Projects : db[q] # Absent}}
       \/ /\ pc' = "failed"
          /\ UNCHANGED feed
    /\ UNCHANGED <<db, store, events, writes, raced>>

\* One iteration of the loop over feedData (lines 58-66), in the order the
\* rows came back.
ApplyFeedRow(row) ==
    /\ pc = "loop"
    /\ row \in feed
    /\ store' = SetConfig(store, Initial, row.project, row.config)
    /\ feed' = feed \ {row}
    /\ UNCHANGED <<db, pc, events, writes, raced>>

\* The loop is over and LoadConfigFromDB returns nil (line 67).
LoopDone ==
    /\ pc = "loop"
    /\ feed = {}
    /\ pc' = "done"
    /\ UNCHANGED <<db, store, feed, events, writes, raced>>

\* Mutant: the callback only handles inserts.
CallbackInsertOnly ==
    /\ Subscribed
    /\ events # <<>>
    /\ LET e == Head(events)
       IN store' = IF e.type = "update" THEN store
                   ELSE SetConfig(store, e.type, e.project, e.config)
    /\ events' = Tail(events)
    /\ raced' = (raced \/ pc = "loop")
    /\ UNCHANGED <<db, pc, feed, writes>>

\* Mutant: the subscription ends when LoadConfigFromDB returns, as it would
\* with a context cancelled on return.
CallbackCancelledOnReturn ==
    /\ pc = "loop"
    /\ events # <<>>
    /\ LET e == Head(events)
       IN store' = SetConfig(store, e.type, e.project, e.config)
    /\ events' = Tail(events)
    /\ raced' = TRUE
    /\ UNCHANGED <<db, pc, feed, writes>>

(***************************************************************************)
(* The callback (lines 37-53) for the oldest queued change: a delete       *)
(* removes the project (DeleteProject), an insert or an update goes        *)
(* through setConfig.                                                      *)
(***************************************************************************)
Callback ==
    /\ Subscribed
    /\ events # <<>>
    /\ LET e == Head(events)
       IN store' = SetConfig(store, e.type, e.project, e.config)
    /\ events' = Tail(events)
    /\ raced' = (raced \/ pc = "loop")
    /\ UNCHANGED <<db, pc, feed, writes>>

\* A change another writer makes to the table, queued for the callback once
\* the subscription exists.
Change(e) ==
    /\ writes < MaxWrites
    /\ writes' = writes + 1
    /\ events' = IF Subscribed THEN Append(events, e) ELSE events
    /\ UNCHANGED <<store, pc, feed, raced>>

DBWrite(p, c) ==
    /\ db' = [db EXCEPT ![p] = c]
    /\ Change([type |-> IF db[p] = Absent THEN "insert" ELSE "update",
               project |-> p, config |-> c])

DBDelete(p) ==
    /\ db[p] # Absent
    /\ db' = [db EXCEPT ![p] = Absent]
    /\ Change([type |-> "delete", project |-> p, config |-> Absent])

Next ==
    \/ CrudSetConfig
    \/ RealtimeSetConfig
    \/ DoRealtimeSubscribe
    \/ \E row \in feed : ApplyFeedRow(row)
    \/ LoopDone
    \/ Callback
    \/ \E p \in Projects, c \in Configs \cup Malformed : DBWrite(p, c)
    \/ \E p \in Projects : DBDelete(p)

Spec == Init /\ [][Next]_vars

\* The steps of LoadConfigFromDB, one goroutine running straight through.
Loader ==
    \/ CrudSetConfig \/ RealtimeSetConfig \/ DoRealtimeSubscribe
    \/ \E row \in feed : ApplyFeedRow(row)
    \/ LoopDone

\* LoadConfigFromDB and the subscription's goroutine each run until they
\* have nothing left to do; the other writers need not write.
FairSpec == Spec /\ WF_vars(Loader) /\ WF_vars(Callback)

-----------------------------------------------------------------------------
\* Config values and queued changes.
Values == Configs \cup Malformed \cup {Absent}
Events == [type : Types, project : Projects, config : Values]

TypeOK ==
    /\ db \in [Projects -> Values]
    /\ store \in [Projects -> Configs \cup {Absent}]
    /\ pc \in {"crud", "realtime", "subscribe", "loop", "done", "failed"}
    /\ feed \subseteq [project : Projects, config : Configs \cup Malformed]
    /\ events \in Seq(Events)
    /\ writes \in 0..MaxWrites
    /\ raced \in BOOLEAN

\* The loader has returned nil and the callback has caught up with the table.
Quiet == pc = "done" /\ events = <<>>

(***************************************************************************)
(* When the feedData loop ran alone, the loader ends with every project    *)
(* whose row parses stored with exactly that row, and every deleted        *)
(* project gone: setConfig and the callback together apply the snapshot    *)
(* and then every insert, update and delete, in order.                     *)
(***************************************************************************)
LoadedWhenUnraced ==
    (Quiet /\ ~raced) =>
        \A p \in Projects : db[p] \notin Malformed => store[p] = db[p]

(***************************************************************************)
(* Once LoadConfigFromDB has returned and the callback has caught up, the  *)
(* gateway holds the table's config for every project whose row parses,    *)
(* whatever the order in which the loop and the callback ran.              *)
(***************************************************************************)
StoreMatchesDBWhenQuiet ==
    Quiet => \A p \in Projects : db[p] \notin Malformed => store[p] = db[p]

(***************************************************************************)
(* The loader does not stop half-way: unless a setup call fails, the       *)
(* feedData loop finishes and the callback catches up with every change.   *)
(***************************************************************************)
LoaderSettles == <>(pc = "failed" \/ Quiet)
====
