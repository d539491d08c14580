--------------------------- MODULE DataLoaderBatch ---------------------------
(***************************************************************************)
(* One call of the batch function of the CRUD data loader,                 *)
(* Module.dataLoaderBatchFn in src/gateway/modules/crud/dataloader.go,     *)
(* together with the resultsHolder it fills.                               *)
(*                                                                         *)
(* The dataloader library hands the function the keys it collected.  Keys  *)
(* that carry read options are each read on a goroutine of their own;      *)
(* the where clauses of the other keys are merged into one {"$or": ...}    *)
(* read that runs after wg.Wait(), and fillResults hands every still empty *)
(* result slot the documents of the merged result its own clause matches.  *)
(* A failed goroutine read cancels the shared context.                     *)
(*                                                                         *)
(* Data is abstracted: a where clause is a model value, the collection a   *)
(* sequence of model values, and utils.Validate the relation Match.  A     *)
(* read result is the SET of documents it returns ({} is nil for op one).  *)
(***************************************************************************)
EXTENDS Naturals, Sequences

CONSTANTS
    Wheres,     \* where clauses (req.Req.Find with MatchWhere merged in)
    Docs,       \* the documents of the collection
    DB,         \* the collection, in the order the database returns it
    Match,      \* <<d, w>> \in Match iff utils.Validate(dbType, w, d)
    MaxBatch    \* bound on len(keys)

ASSUME DataLoaderAssumption ==
    /\ DB \in Seq(Docs)
    /\ Match \subseteq Docs \X Wheres
    /\ MaxBatch \in Nat

\* utils.One and utils.All, the two values of req.Req.Operation.
Ops == {"one", "all"}

\* model.ReadRequestKey, reduced to what the batch function reads of it.
ReadRequestKey == [hasOptions : BOOLEAN, op : Ops, where : Wheres]

\* meta: what addMeta records of a key without options.
Meta == [op : Ops, where : Wheres]

\* A slot of holder.results: nil, a queryResult, or a Result with an error.
Result == [kind : {"nil", "data", "error"}, doc : SUBSET Docs]
NoResult == [kind |-> "nil", doc |-> {}]
ErrResult == [kind |-> "error", doc |-> {}]
DataResult(d) == [kind |-> "data", doc |-> d]

\* The key lists the library may pass, up to MaxBatch keys.
Batches == UNION {[1..n -> ReadRequestKey] : n \in 0..MaxBatch}

VARIABLES
    keys,       \* the keys argument
    pc,         \* where the batch function's own goroutine is
    idx,        \* the position of the range loop over keys
    results,    \* holder.results
    metas,      \* holder.metas
    running,    \* keys whose goroutine has not yet called wg.Done()
    cancelled   \* the shared ctx has been cancelled

vars == <<keys, pc, idx, results, metas, running, cancelled>>

-----------------------------------------------------------------------------
(* The database read m.Read, for the request {"$or": W}.                   *)

\* utils.Validate(dbType, w, doc)
Validate(w, d) == <<d, w>> \in Match

\* Position p of the collection satisfies {"$or": W}.
Hits(p, W) == \E w \in W : Validate(w, DB[p])

\* Op one returns the first document that matches, op all every one.
ReadOne(W) == {DB[p] : p \in {p \in DOMAIN DB : Hits(p, W) /\ \A q \in 1..(p - 1) : ~Hits(q, W)}}
ReadAll(W) == {DB[p] : p \in {p \in DOMAIN DB : Hits(p, W)}}
Read(op, W) == IF op = "one" THEN ReadOne(W) ELSE ReadAll(W)

-----------------------------------------------------------------------------
(* resultsHolder                                                           *)

\* The clauses of the merged request: getWhereClauses.
MetaWheres == {metas[j].where : j \in DOMAIN metas}

\* The documents fillResults keeps for meta m out of the merged result of
\* the clauses W.  For op one the loop breaks after the FIRST document of
\* the merged result, whether or not that document matched m.
FillDocs(W, m) ==
    IF m.op = "one" THEN {d \in ReadOne(W) : Validate(m.where, d)}
                    ELSE {d \in ReadAll(W) : Validate(m.where, d)}

\* addResult: slot i takes result r.
AddResult(i, r) == results' = [results EXCEPT ![i] = r]

\* addMeta: the key's operation and where clause are appended to metas.
AddMeta(k) == metas' = Append(metas, [op |-> k.op, where |-> k.where])

\* The running count the loop of fillResults keeps in index: c[n] is the
\* number of the positions 1..n that are in S.
CountUpTo(S, L) ==
    LET c[n \in 0..L] == IF n = 0 THEN 0 ELSE c[n - 1] + (IF n \in S THEN 1 ELSE 0)
    IN c

\* The number of nil slots up to slot i: the value of index + 1 when
\* fillResults reaches slot i.
NilRank(i) == CountUpTo({j \in DOMAIN results : results[j].kind = "nil"}, Len(keys))[i]

\* Mutant: the where clause index is never incremented.
FillResultsNoIncrement ==
    results' = [i \in DOMAIN results |->
                  IF results[i].kind # "nil" THEN results[i]
                  ELSE DataResult(FillDocs(MetaWheres, metas[1]))]

\* Mutant: the slots are filled over the range of metas, not of results.
FillResultsOverMetas ==
    results' = [i \in DOMAIN metas |->
                  IF results[i].kind # "nil" THEN results[i]
                  ELSE DataResult(FillDocs(MetaWheres, metas[NilRank(i)]))]

\* fillResults: every nil slot, in order, takes the next meta.
FillResults ==
    results' = [i \in DOMAIN results |->
                  IF results[i].kind # "nil" THEN results[i]
                  ELSE DataResult(FillDocs(MetaWheres, metas[NilRank(i)]))]

\* Mutants: the nil test of fillErrorMessage inverted, or dropped.
FillErrorMessageInverted ==
    results' = [i \in DOMAIN results |->
                  IF results[i].kind # "nil" THEN ErrResult ELSE results[i]]
FillErrorMessageAll ==
    results' = [i \in DOMAIN results |-> ErrResult]

\* fillErrorMessage: every nil slot gets the error.
FillErrorMessage ==
    results' = [i \in DOMAIN results |->
                  IF results[i].kind = "nil" THEN ErrResult ELSE results[i]]

-----------------------------------------------------------------------------
(* dataLoaderBatchFn                                                       *)

Init ==
    /\ keys \in Batches
    /\ pc = "loop"
    /\ idx = 1
    /\ results = [i \in DOMAIN keys |-> NoResult]
    /\ metas = <<>>
    /\ running = {}
    /\ cancelled = FALSE

\* if len(keys) == 0 { return []*dataloader.Result{} }
EmptyBatch ==
    /\ pc = "loop"
    /\ keys = <<>>
    /\ pc' = "done"
    /\ UNCHANGED <<keys, idx, results, metas, running, cancelled>>

\* One turn of the range loop: a key with options gets wg.Add(1) and a
\* goroutine, any other key is appended to holder.metas (addMeta).
DispatchKey ==
    /\ pc = "loop"
    /\ idx \in DOMAIN keys
    /\ \/ /\ keys[idx].hasOptions
          /\ running' = running \cup {idx}
          /\ UNCHANGED metas
       \/ /\ ~keys[idx].hasOptions
          /\ AddMeta(keys[idx])
          /\ UNCHANGED running
    /\ idx' = idx + 1
    /\ UNCHANGED <<keys, pc, results, cancelled>>

\* The loop is over; the function reaches wg.Wait().
EndOfKeys ==
    /\ pc = "loop"
    /\ keys # <<>>
    /\ idx = Len(keys) + 1
    /\ pc' = "wait"
    /\ UNCHANGED <<keys, idx, results, metas, running, cancelled>>

\* Mutant: wg.Done() only on the success path (not deferred).
ReadWithOptionsNoDoneOnError(i) ==
    /\ i \in running
    /\ results[i].kind = "nil"
    /\ \/ /\ AddResult(i, DataResult(Read(keys[i].op, {keys[i].where})))
          /\ running' = running \ {i}
          /\ UNCHANGED cancelled
       \/ /\ AddResult(i, ErrResult)
          /\ cancelled' = TRUE
          /\ UNCHANGED running
    /\ UNCHANGED <<keys, pc, idx, metas>>

\* The goroutine of key i: m.Read with its own options; on an error it
\* calls cancel() and stores the error, otherwise it stores the documents;
\* the deferred wg.Done() runs either way.  A read may fail at any time
\* (the database is not modelled), whether or not ctx was cancelled.
ReadWithOptions(i) ==
    /\ i \in running
    /\ \/ /\ AddResult(i, DataResult(Read(keys[i].op, {keys[i].where})))
          /\ UNCHANGED cancelled
       \/ /\ AddResult(i, ErrResult)
          /\ cancelled' = TRUE
    /\ running' = running \ {i}
    /\ UNCHANGED <<keys, pc, idx, metas>>

\* wg.Wait() returns.
WaitGroupDone == running = {}

\* No where clauses: the merged query is not fired.
NoClauses ==
    /\ pc = "wait"
    /\ WaitGroupDone
    /\ metas = <<>>
    /\ pc' = "done"
    /\ UNCHANGED <<keys, idx, results, metas, running, cancelled>>

\* The merged read fails (always possible; certain once ctx is cancelled,
\* as the read starts after the cancel): fillErrorMessage.
MergedReadFails ==
    /\ pc = "wait"
    /\ WaitGroupDone
    /\ metas # <<>>
    /\ FillErrorMessage
    /\ pc' = "done"
    /\ UNCHANGED <<keys, idx, metas, running, cancelled>>

\* The merged read {"$or": clauses} with op all succeeds: fillResults.
MergedReadSucceeds ==
    /\ pc = "wait"
    /\ WaitGroupDone
    /\ metas # <<>>
    /\ ~cancelled
    /\ FillResults
    /\ pc' = "done"
    /\ UNCHANGED <<keys, idx, metas, running, cancelled>>

\* The steps of the batch function's own goroutine.
BatchFn == EmptyBatch \/ DispatchKey \/ EndOfKeys \/ NoClauses
           \/ MergedReadFails \/ MergedReadSucceeds

Next == BatchFn \/ \E i \in running : ReadWithOptions(i)

\* The Go scheduler runs every runnable goroutine, and m.Read returns
\* (its context carries the request deadline).
Fairness == /\ WF_vars(BatchFn)
            /\ \A i \in 1..MaxBatch : WF_vars(ReadWithOptions(i))

Spec == Init /\ [][Next]_vars /\ Fairness

-----------------------------------------------------------------------------
(* Properties                                                              *)

TypeOK ==
    /\ keys \in Batches
    /\ pc \in {"loop", "wait", "done"}
    /\ idx \in 1..(Len(keys) + 1)
    /\ results \in [DOMAIN keys -> Result]
    /\ metas \in Seq(Meta)
    /\ running \subseteq DOMAIN keys
    /\ cancelled \in BOOLEAN

\* The clauses of the keys without options: those of the merged request.
BatchWheres == {keys[j].where : j \in {j \in DOMAIN keys : ~keys[j].hasOptions}}

\* What the batch function owes key i: its own read if it has options,
\* else the documents fillResults picks for its clause out of the merged read.
Expected(i) ==
    IF keys[i].hasOptions
    THEN Read(keys[i].op, {keys[i].where})
    ELSE FillDocs(BatchWheres, [op |-> keys[i].op, where |-> keys[i].where])

(* Every key gets the answer computed for ITS OWN query: the data stored in *)
(* slot i is the result of key i's read, never that of another key.  This  *)
(* is what the index bookkeeping of fillResults (skip filled slots, one     *)
(* meta per nil slot) and wg.Wait() before it must get right.               *)
AnswerMatchesKey ==
    \A i \in DOMAIN keys : results[i].kind = "data" => results[i].doc = Expected(i)

(* When the batch function returns, every key has a result or an error: the *)
(* dataloader library never receives a nil *Result, on every path through   *)
(* goroutine failures, cancellation and the merged read's failure.          *)
EveryKeyAnswered ==
    pc = "done" => \A i \in DOMAIN keys : results[i].kind # "nil"

(* A slot once written is never overwritten: the goroutine of a key with    *)
(* options, fillResults and fillErrorMessage never race for the same slot.  *)
NoResultOverwritten ==
    [][\A i \in DOMAIN keys : results[i].kind # "nil" => results'[i] = results[i]]_vars

(* The batch function returns: every goroutine calls wg.Done(), so          *)
(* wg.Wait() returns and the merged read runs.                              *)
Termination == <>(pc = "done")

(* A key without options gets, from the batch, the same documents its own   *)
(* read would have returned: batching is invisible to the caller.           *)
BatchedReadMatchesOwnRead ==
    pc = "done" =>
        \A i \in DOMAIN keys :
            results[i].kind = "data" => results[i].doc = Read(keys[i].op, {keys[i].where})

=============================================================================
