------------------------ MODULE DataLoaderBatchProofs ------------------------
(***************************************************************************)
(* Proofs about DataLoaderBatch, for every collection, every set of where  *)
(* clauses and every batch size.                                           *)
(***************************************************************************)
EXTENDS DataLoaderBatch, LeastElement, TLAPS

-----------------------------------------------------------------------------
(* Lemmas about the read operators.                                        *)

\* A read returns documents of the collection.
LEMMA ReadInDocs ==
    ASSUME NEW op, NEW W
    PROVE  Read(op, W) \subseteq Docs
BY DataLoaderAssumption DEF Read, ReadOne, ReadAll

\* fillResults keeps documents of the collection, whatever meta it is given.
LEMMA FillDocsInDocs ==
    ASSUME NEW W, NEW m
    PROVE  FillDocs(W, m) \subseteq Docs
BY DataLoaderAssumption DEF FillDocs, ReadOne, ReadAll

\* A batch is a sequence of keys.
LEMMA BatchIsSeq ==
    ASSUME NEW b \in Batches
    PROVE  b \in Seq(ReadRequestKey)
<1>1. PICK n \in 0..MaxBatch : b \in [1..n -> ReadRequestKey]
  BY DEF Batches
<1>2. QED
  BY <1>1, DataLoaderAssumption

-----------------------------------------------------------------------------
(* The running count of fillResults (CountUpTo).                           *)

\* g counts the members of S among 1..n, for every n in 0..M.
Counts(S, g, M) ==
    \A n \in 0..M : g[n] = IF n = 0 THEN 0 ELSE g[n - 1] + (IF n \in S THEN 1 ELSE 0)

\* For every bound there is such a count: one for 0..m-1 extends to 0..m.
LEMMA CountExists ==
    ASSUME NEW S, NEW M \in Nat
    PROVE  \E g \in [0..M -> Nat] : Counts(S, g, M)
<1> DEFINE Bad == {m \in Nat : ~\E g \in [0..m -> Nat] : Counts(S, g, m)}
<1> SUFFICES ASSUME Bad # {} PROVE FALSE
  BY DEF Bad
<1>1. PICK m \in Bad : \A y \in Bad : m <= y
  <2>1. Bad \in SUBSET Nat
    BY DEF Bad
  <2> QED
    BY <2>1, NatHasLeast
<1>2. CASE m = 0
  <2> DEFINE g0 == [n \in 0..0 |-> 0]
  <2>1. g0 \in [0..0 -> Nat] /\ Counts(S, g0, 0)
    BY DEF Counts, g0
  <2> QED
    BY <1>1, <1>2, <2>1 DEF Bad
<1>3. CASE m # 0
  <2>1. m - 1 \in Nat /\ m - 1 \notin Bad
    BY <1>1, <1>3 DEF Bad
  <2>2. PICK g \in [0..(m - 1) -> Nat] : Counts(S, g, m - 1)
    BY <2>1 DEF Bad
  <2> DEFINE h == [n \in 0..m |-> IF n < m THEN g[n]
                                ELSE g[m - 1] + (IF m \in S THEN 1 ELSE 0)]
  <2>3. h \in [0..m -> Nat]
    BY <1>1, <2>1, <2>2 DEF h, Bad
  <2>4. Counts(S, h, m)
    <3> SUFFICES ASSUME NEW n \in 0..m
                 PROVE  h[n] = IF n = 0 THEN 0 ELSE h[n - 1] + (IF n \in S THEN 1 ELSE 0)
      BY DEF Counts
    <3>1. m \in Nat
      BY <1>1 DEF Bad
    <3>2. CASE n < m
      BY <2>2, <3>1, <3>2 DEF Counts, h
    <3>3. CASE n = m
      BY <1>3, <2>1, <3>1, <3>3 DEF h
    <3> QED
      BY <3>1, <3>2, <3>3
  <2> QED
    BY <1>1, <2>3, <2>4 DEF Bad
<1> QED
  BY <1>2, <1>3

\* CountUpTo(S, L) is that count: natural numbers that satisfy the
\* recurrence of its definition.
LEMMA CountUpToDef ==
    ASSUME NEW S, NEW L \in Nat
    PROVE  /\ CountUpTo(S, L) \in [0..L -> Nat]
           /\ Counts(S, CountUpTo(S, L), L)
<1> DEFINE F(g) == [n \in 0..L |-> IF n = 0 THEN 0 ELSE g[n - 1] + (IF n \in S THEN 1 ELSE 0)]
<1> DEFINE c == CountUpTo(S, L)
<1>1. PICK g \in [0..L -> Nat] : Counts(S, g, L)
  BY CountExists
<1>2. g = F(g)
  BY <1>1 DEF Counts, F
<1>3. c = F(c)
  BY <1>2 DEF c, CountUpTo, F
<1>4. Counts(S, c, L)
  BY <1>3 DEF Counts, F
<1>5. c \in [0..L -> Nat]
  <2> DEFINE Bad == {n \in 0..L : c[n] \notin Nat}
  <2> SUFFICES ASSUME Bad # {} PROVE FALSE
    BY <1>3 DEF Bad, F
  <2>1. PICK n \in Bad : \A y \in Bad : n <= y
    <3>1. Bad \in SUBSET Nat
      BY DEF Bad
    <3> QED
      BY <3>1, NatHasLeast
  <2>2. n # 0
    BY <1>4, <2>1 DEF Bad, Counts
  <2>3. n - 1 \in 0..L /\ n - 1 \notin Bad
    BY <2>1, <2>2 DEF Bad
  <2>4. c[n] = c[n - 1] + (IF n \in S THEN 1 ELSE 0)
    BY <1>4, <2>1, <2>2 DEF Bad, Counts
  <2>5. c[n - 1] \in Nat /\ c[n] \notin Nat
    BY <2>1, <2>3 DEF Bad
  <2> QED
    BY <2>4, <2>5
<1> QED
  BY <1>4, <1>5

-----------------------------------------------------------------------------
(* Type correctness.                                                       *)

\* Every step keeps the type invariant.
LEMMA TypeOKStep == TypeOK /\ [Next]_vars => TypeOK'
<1> SUFFICES ASSUME TypeOK, [Next]_vars
             PROVE  TypeOK'
  OBVIOUS
<1>0. keys \in Seq(ReadRequestKey)
  BY BatchIsSeq DEF TypeOK
<1>1. CASE EmptyBatch
  BY <1>1 DEF EmptyBatch, TypeOK
<1>2. CASE DispatchKey
  <2>1. idx \in 1..Len(keys)
    BY <1>0, <1>2 DEF DispatchKey, AddMeta
  <2>2. keys[idx] \in ReadRequestKey
    BY <1>0, <2>1
  <2>3. [op |-> keys[idx].op, where |-> keys[idx].where] \in Meta
    BY <2>2 DEF Meta, ReadRequestKey
  <2>4. metas' \in Seq(Meta)
    <3>1. CASE keys[idx].hasOptions
      BY <1>2, <3>1 DEF DispatchKey, AddMeta, TypeOK
    <3>2. CASE ~keys[idx].hasOptions
      <4>1. metas' = Append(metas, [op |-> keys[idx].op, where |-> keys[idx].where])
        BY <1>2, <3>2 DEF DispatchKey, AddMeta
      <4>2. QED
        BY <2>3, <4>1 DEF TypeOK
    <3>3. QED
      BY <3>1, <3>2
  <2>5. running' \subseteq DOMAIN keys
    BY <1>2, <2>1, <1>0 DEF DispatchKey, AddMeta, TypeOK
  <2>6. QED
    BY <1>0, <1>2, <2>1, <2>4, <2>5 DEF DispatchKey, AddMeta, TypeOK
<1>3. CASE EndOfKeys
  BY <1>3 DEF EndOfKeys, TypeOK
<1>4. CASE NoClauses
  BY <1>4 DEF NoClauses, TypeOK
<1>5. CASE MergedReadFails
  <2>1. ErrResult \in Result
    BY DEF ErrResult, Result
  <2>2. QED
    BY <1>5, <2>1 DEF MergedReadFails, FillErrorMessage, TypeOK
<1>6. CASE MergedReadSucceeds
  <2>1. \A i \in DOMAIN keys : FillDocs(MetaWheres, metas[NilRank(i)]) \subseteq Docs
    BY FillDocsInDocs
  <2>2. QED
    BY <1>6, <2>1 DEF MergedReadSucceeds, FillResults, TypeOK, Result, DataResult
<1>7. ASSUME NEW i \in running, ReadWithOptions(i)
      PROVE  TypeOK'
  <2>1. Read(keys[i].op, {keys[i].where}) \subseteq Docs
    BY ReadInDocs
  <2>2. DataResult(Read(keys[i].op, {keys[i].where})) \in Result
    BY <2>1 DEF DataResult, Result
  <2>3. ErrResult \in Result
    BY DEF ErrResult, Result
  <2>4. i \in DOMAIN keys
    BY <1>7 DEF TypeOK
  <2>5. results' \in [DOMAIN keys -> Result]
    BY <1>7, <2>2, <2>3, <2>4 DEF ReadWithOptions, AddResult, TypeOK
  <2>6. QED
    BY <1>7, <2>5 DEF ReadWithOptions, AddResult, TypeOK
<1>8. CASE UNCHANGED vars
  BY <1>0, <1>8 DEF vars, TypeOK
<1>9. QED
  BY <1>1, <1>2, <1>3, <1>4, <1>5, <1>6, <1>7, <1>8 DEF Next, BatchFn

\* The initial states are well typed.
LEMMA TypeOKInit == Init => TypeOK
<1> SUFFICES ASSUME Init PROVE TypeOK
  OBVIOUS
<1>1. keys \in Seq(ReadRequestKey)
  BY BatchIsSeq DEF Init
<1>2. NoResult \in Result
  BY DEF NoResult, Result
<1>3. idx \in 1..(Len(keys) + 1)
  BY <1>1 DEF Init
<1>4. results \in [DOMAIN keys -> Result]
  BY <1>2 DEF Init
<1>5. metas \in Seq(Meta)
  BY DEF Init
<1>6. QED
  BY <1>3, <1>4, <1>5 DEF Init, TypeOK

(* TypeOK: the batch function's state is well typed in every reachable     *)
(* state: every result slot is nil, documents or an error.                 *)
THEOREM TypeCorrect == Spec => []TypeOK
BY TypeOKInit, TypeOKStep, PTL DEF Spec



-----------------------------------------------------------------------------
(* The inductive invariant behind EveryKeyAnswered and NoResultOverwritten. *)

\* Only a running goroutine's slot is written by it, and that slot is empty.
RunningSlotsEmpty == \A i \in running : results[i].kind = "nil"

\* Goroutines exist only for keys with options the loop has passed.
RunningAreDispatchedOptionKeys ==
    running \subseteq {j \in DOMAIN keys : j < idx /\ keys[j].hasOptions}

\* Nothing has been written for keys the loop has not reached.
UnreachedSlotsEmpty == \A j \in DOMAIN keys : j >= idx => results[j].kind = "nil"

\* An empty slot of a dispatched key with options belongs to a live goroutine.
OptionSlotsPending ==
    \A j \in DOMAIN keys :
        j < idx /\ keys[j].hasOptions /\ results[j].kind = "nil" => j \in running

\* While holder.metas is empty, every key dispatched so far had options.
NoMetasOnlyOptionKeys ==
    metas = <<>> => \A j \in DOMAIN keys : j < idx => keys[j].hasOptions

\* After the loop, every key has been dispatched.
LoopFinished == pc # "loop" => idx = Len(keys) + 1

\* A finished call has no goroutine left and no empty slot.
DoneComplete ==
    pc = "done" => running = {} /\ \A i \in DOMAIN keys : results[i].kind # "nil"

IInv ==
    /\ TypeOK
    /\ RunningSlotsEmpty
    /\ RunningAreDispatchedOptionKeys
    /\ UnreachedSlotsEmpty
    /\ OptionSlotsPending
    /\ NoMetasOnlyOptionKeys
    /\ LoopFinished
    /\ DoneComplete


\* The initial state satisfies the inductive invariant.
LEMMA IInvInit == Init => IInv
<1> SUFFICES ASSUME Init PROVE IInv
  OBVIOUS
<1>1. TypeOK
  BY TypeOKInit
<1>2. keys \in Seq(ReadRequestKey)
  BY BatchIsSeq DEF Init
<1>3. QED
  BY <1>1, <1>2 DEF Init, IInv, RunningSlotsEmpty, RunningAreDispatchedOptionKeys,
     UnreachedSlotsEmpty, OptionSlotsPending, NoMetasOnlyOptionKeys, LoopFinished,
     DoneComplete, NoResult

\* Every step keeps the inductive invariant.
LEMMA IInvStep == IInv /\ [Next]_vars => IInv'
<1> SUFFICES ASSUME IInv, [Next]_vars PROVE IInv'
  OBVIOUS
<1>0. /\ TypeOK'
      /\ keys \in Seq(ReadRequestKey)
      /\ TypeOK
  BY TypeOKStep, BatchIsSeq DEF IInv, TypeOK
<1> USE DEF IInv
<1>1. CASE EmptyBatch
  <2>1. DOMAIN keys = {} /\ running = {} /\ keys' = keys /\ running' = running
    BY <1>0, <1>1 DEF EmptyBatch, RunningAreDispatchedOptionKeys
  <2>2. idx' = Len(keys') + 1
    BY <1>0, <1>1 DEF EmptyBatch, TypeOK
  <2>3. QED
    BY <1>0, <2>1, <2>2 DEF RunningSlotsEmpty, RunningAreDispatchedOptionKeys,
       UnreachedSlotsEmpty, OptionSlotsPending, NoMetasOnlyOptionKeys, LoopFinished,
       DoneComplete
<1>2. CASE DispatchKey
  <2>1. /\ idx \in 1..Len(keys)
        /\ results[idx].kind = "nil"
        /\ pc = "loop" /\ pc' = "loop"
        /\ idx' = idx + 1 /\ results' = results /\ keys' = keys
    BY <1>0, <1>2 DEF DispatchKey, AddMeta, UnreachedSlotsEmpty
  <2>2. CASE keys[idx].hasOptions
    <3>1. running' = running \cup {idx} /\ metas' = metas
      BY <1>2, <2>2 DEF DispatchKey, AddMeta
    <3>2. RunningSlotsEmpty'
      BY <2>1, <3>1 DEF RunningSlotsEmpty
    <3>3. RunningAreDispatchedOptionKeys'
      BY <1>0, <2>1, <2>2, <3>1 DEF RunningAreDispatchedOptionKeys
    <3>4. OptionSlotsPending'
      BY <1>0, <2>1, <3>1 DEF OptionSlotsPending
    <3>5. NoMetasOnlyOptionKeys'
      BY <1>0, <2>1, <2>2, <3>1 DEF NoMetasOnlyOptionKeys
    <3>6. QED
      BY <1>0, <2>1, <3>2, <3>3, <3>4, <3>5 DEF UnreachedSlotsEmpty, LoopFinished, DoneComplete
  <2>3. CASE ~keys[idx].hasOptions
    <3>1. running' = running /\ metas' # <<>>
      BY <1>2, <2>3 DEF DispatchKey, AddMeta
    <3>2. RunningAreDispatchedOptionKeys'
      BY <1>0, <2>1, <3>1 DEF RunningAreDispatchedOptionKeys
    <3>3. OptionSlotsPending'
      BY <1>0, <2>1, <2>3, <3>1 DEF OptionSlotsPending
    <3>4. QED
      BY <1>0, <2>1, <3>1, <3>2, <3>3 DEF RunningSlotsEmpty, UnreachedSlotsEmpty,
         NoMetasOnlyOptionKeys, LoopFinished, DoneComplete
  <2>4. QED
    BY <2>2, <2>3
<1>3. CASE EndOfKeys
  BY <1>0, <1>3 DEF EndOfKeys, RunningSlotsEmpty, RunningAreDispatchedOptionKeys,
     UnreachedSlotsEmpty, OptionSlotsPending, NoMetasOnlyOptionKeys, LoopFinished,
     DoneComplete
<1>4. ASSUME NEW i \in running, ReadWithOptions(i)
      PROVE  IInv'
  <2>1. /\ i \in DOMAIN keys /\ i < idx
        /\ running' = running \ {i}
        /\ UNCHANGED <<keys, pc, idx, metas>>
    BY <1>4 DEF ReadWithOptions, AddResult, RunningAreDispatchedOptionKeys
  <2>2. \A j \in DOMAIN keys : j # i => results'[j] = results[j]
    BY <1>0, <1>4 DEF ReadWithOptions, AddResult, TypeOK
  <2>3. results'[i].kind # "nil"
    BY <1>0, <1>4, <2>1 DEF ReadWithOptions, AddResult, DataResult, ErrResult, TypeOK
  <2>4. pc # "done"
    BY <1>4 DEF DoneComplete
  <2>5. RunningSlotsEmpty'
    BY <2>1, <2>2 DEF RunningSlotsEmpty, RunningAreDispatchedOptionKeys
  <2>6. UnreachedSlotsEmpty'
    BY <1>0, <2>1, <2>2 DEF UnreachedSlotsEmpty, TypeOK
  <2>7. OptionSlotsPending'
    BY <2>1, <2>2, <2>3 DEF OptionSlotsPending
  <2>8. QED
    BY <1>0, <2>1, <2>4, <2>5, <2>6, <2>7 DEF RunningAreDispatchedOptionKeys,
       NoMetasOnlyOptionKeys, LoopFinished, DoneComplete
<1>5. CASE NoClauses
  <2>1. /\ pc = "wait" /\ running = {} /\ metas = <<>> /\ idx = Len(keys) + 1
        /\ UNCHANGED <<keys, idx, results, metas, running>>
    BY <1>5 DEF NoClauses, WaitGroupDone, LoopFinished
  <2>2. \A i \in DOMAIN keys : results[i].kind # "nil"
    BY <1>0, <2>1 DEF NoMetasOnlyOptionKeys, OptionSlotsPending
  <2>3. QED
    BY <1>0, <1>5, <2>1, <2>2 DEF NoClauses, RunningSlotsEmpty, RunningAreDispatchedOptionKeys,
       UnreachedSlotsEmpty, OptionSlotsPending, NoMetasOnlyOptionKeys, LoopFinished,
       DoneComplete
<1>6. CASE MergedReadFails
  <2>1. /\ pc = "wait" /\ running = {} /\ idx = Len(keys) + 1
        /\ UNCHANGED <<keys, idx, metas, running>> /\ pc' = "done"
    BY <1>6 DEF MergedReadFails, WaitGroupDone, LoopFinished
  <2>2. \A i \in DOMAIN keys : results'[i].kind # "nil"
    BY <1>0, <1>6 DEF MergedReadFails, FillErrorMessage, ErrResult, TypeOK
  <2>3. QED
    BY <1>0, <2>1, <2>2 DEF RunningSlotsEmpty, RunningAreDispatchedOptionKeys,
       UnreachedSlotsEmpty, OptionSlotsPending, NoMetasOnlyOptionKeys, LoopFinished,
       DoneComplete
<1>7. CASE MergedReadSucceeds
  <2>1. /\ pc = "wait" /\ running = {} /\ idx = Len(keys) + 1
        /\ UNCHANGED <<keys, idx, metas, running>> /\ pc' = "done"
    BY <1>7 DEF MergedReadSucceeds, WaitGroupDone, LoopFinished
  <2>2. \A i \in DOMAIN keys : results'[i].kind # "nil"
    BY <1>0, <1>7 DEF MergedReadSucceeds, FillResults, DataResult, TypeOK
  <2>3. QED
    BY <1>0, <2>1, <2>2 DEF RunningSlotsEmpty, RunningAreDispatchedOptionKeys,
       UnreachedSlotsEmpty, OptionSlotsPending, NoMetasOnlyOptionKeys, LoopFinished,
       DoneComplete
<1>8. CASE UNCHANGED vars
  BY <1>0, <1>8 DEF vars, RunningSlotsEmpty, RunningAreDispatchedOptionKeys,
     UnreachedSlotsEmpty, OptionSlotsPending, NoMetasOnlyOptionKeys, LoopFinished,
     DoneComplete
<1>9. QED
  BY <1>1, <1>2, <1>3, <1>4, <1>5, <1>6, <1>7, <1>8 DEF Next, BatchFn

(* The inductive invariant holds in every reachable state. *)
THEOREM IInvHolds == Spec => []IInv
BY IInvInit, IInvStep, PTL DEF Spec

(* EveryKeyAnswered: whatever the batch, the goroutine failures and the     *)
(* merged read's outcome, dataLoaderBatchFn returns no nil result.          *)
THEOREM EveryKeyAnsweredHolds == Spec => []EveryKeyAnswered
<1>1. IInv => EveryKeyAnswered
  BY DEF IInv, DoneComplete, EveryKeyAnswered
<1>2. QED
  BY <1>1, IInvHolds, PTL

(* NoResultOverwritten: no step of the batch function or of a goroutine     *)
(* overwrites a result slot that already holds a result or an error.        *)
THEOREM NoResultOverwrittenHolds == Spec => NoResultOverwritten
<1>1. IInv /\ [Next]_vars =>
        [\A i \in DOMAIN keys : results[i].kind # "nil" => results'[i] = results[i]]_vars
  <2> SUFFICES ASSUME IInv, [Next]_vars,
                      NEW i \in DOMAIN keys, results[i].kind # "nil"
               PROVE  results'[i] = results[i]
    OBVIOUS
  <2>0. TypeOK /\ keys \in Seq(ReadRequestKey)
    BY BatchIsSeq DEF IInv, TypeOK
  <2>1. ASSUME NEW j \in running, ReadWithOptions(j)
        PROVE  results'[i] = results[i]
    <3>1. j # i
      BY DEF IInv, RunningSlotsEmpty
    <3>2. QED
      BY <2>0, <2>1, <3>1 DEF ReadWithOptions, AddResult, TypeOK
  <2>2. CASE MergedReadFails
    BY <2>0, <2>2 DEF MergedReadFails, FillErrorMessage, TypeOK
  <2>3. CASE MergedReadSucceeds
    BY <2>0, <2>3 DEF MergedReadSucceeds, FillResults, TypeOK
  <2>4. CASE EmptyBatch \/ DispatchKey \/ EndOfKeys \/ NoClauses \/ UNCHANGED vars
    BY <2>4 DEF EmptyBatch, DispatchKey, EndOfKeys, NoClauses, vars
  <2>5. QED
    BY <2>1, <2>2, <2>3, <2>4 DEF Next, BatchFn
<1>2. QED
  BY <1>1, IInvHolds, PTL DEF NoResultOverwritten, Spec

-----------------------------------------------------------------------------
(* The inductive invariant behind AnswerMatchesKey.                         *)

\* The keys without options, whose clauses go to holder.metas.
NonOpt == {j \in DOMAIN keys : ~keys[j].hasOptions}

\* NC[j]: how many keys without options there are among the first j; the
\* position in holder.metas of the meta of such a key j.
NC == CountUpTo(NonOpt, Len(keys))

\* The meta addMeta records for key k.
MetaOf(k) == [op |-> k.op, where |-> k.where]

\* holder.metas holds one meta per key without options the loop has passed.
MetasCount == Len(metas) = NC[idx - 1]

\* The meta of such a key j sits at position NC[j].
MetasPlaced ==
    \A j \in NonOpt : j < idx => NC[j] \in 1..Len(metas) /\ metas[NC[j]] = MetaOf(keys[j])

\* Every meta is that of such a key.
MetasFromKeys == \A k \in 1..Len(metas) : \E j \in NonOpt : j < idx /\ NC[j] = k

\* The slots of keys without options stay nil until fillResults or
\* fillErrorMessage.
NonOptSlotsEmpty == pc # "done" => \A j \in NonOpt : results[j].kind = "nil"

MInv ==
    /\ IInv
    /\ MetasCount
    /\ MetasPlaced
    /\ MetasFromKeys
    /\ NonOptSlotsEmpty
    /\ AnswerMatchesKey

\* What the proofs use of NC.
LEMMA NCFacts ==
    ASSUME TypeOK
    PROVE  /\ keys \in Seq(ReadRequestKey)
           /\ DOMAIN keys = 1..Len(keys)
           /\ NC \in [0..Len(keys) -> Nat]
           /\ NC[0] = 0
           /\ \A n \in 1..Len(keys) :
                 NC[n] = NC[n - 1] + (IF n \in NonOpt THEN 1 ELSE 0)
<1>1. keys \in Seq(ReadRequestKey)
  BY BatchIsSeq DEF TypeOK
<1>2. CountUpTo(NonOpt, Len(keys)) \in [0..Len(keys) -> Nat]
      /\ Counts(NonOpt, CountUpTo(NonOpt, Len(keys)), Len(keys))
  BY <1>1, CountUpToDef
<1> QED
  BY <1>1, <1>2 DEF NC, Counts

\* No step changes the keys.
LEMMA KeysConstant == [Next]_vars => keys' = keys
BY DEF Next, BatchFn, EmptyBatch, DispatchKey, EndOfKeys, NoClauses,
   MergedReadFails, MergedReadSucceeds, ReadWithOptions, vars

\* The initial state satisfies MInv.
LEMMA MInvInit == Init => MInv
<1> SUFFICES ASSUME Init PROVE MInv
  OBVIOUS
<1>1. IInv /\ TypeOK
  BY IInvInit, TypeOKInit
<1>2. NC[0] = 0 /\ DOMAIN keys = 1..Len(keys)
  BY <1>1, NCFacts
<1>3. MetasCount
  BY <1>2 DEF Init, MetasCount
<1>4. MetasPlaced /\ MetasFromKeys
  BY <1>2 DEF Init, MetasPlaced, MetasFromKeys, NonOpt
<1>5. NonOptSlotsEmpty /\ AnswerMatchesKey
  BY DEF Init, NonOptSlotsEmpty, AnswerMatchesKey, NoResult, NonOpt
<1> QED
  BY <1>1, <1>3, <1>4, <1>5 DEF MInv

\* Every step keeps MInv.
LEMMA MInvStep == MInv /\ [Next]_vars => MInv'
<1> SUFFICES ASSUME MInv, [Next]_vars PROVE MInv'
  OBVIOUS
<1>0. /\ IInv' /\ TypeOK /\ TypeOK'
      /\ keys' = keys /\ NonOpt' = NonOpt /\ NC' = NC
      /\ keys \in Seq(ReadRequestKey) /\ DOMAIN keys = 1..Len(keys)
      /\ NC \in [0..Len(keys) -> Nat]
      /\ \A n \in 1..Len(keys) : NC[n] = NC[n - 1] + (IF n \in NonOpt THEN 1 ELSE 0)
  <2>1. IInv' /\ TypeOK /\ TypeOK' /\ keys' = keys
    BY IInvStep, KeysConstant DEF MInv, IInv
  <2>2. NonOpt' = NonOpt /\ NC' = NC
    BY <2>1 DEF NonOpt, NC
  <2> QED
    BY <2>1, <2>2, NCFacts
<1>a. \A i \in DOMAIN keys : Expected(i)' = Expected(i)
  BY <1>0 DEF Expected, BatchWheres
\* A step that changes neither idx, metas nor results.
<1>b. ASSUME idx' = idx, metas' = metas, results' = results
      PROVE  MetasCount' /\ MetasPlaced' /\ MetasFromKeys' /\ AnswerMatchesKey'
  BY <1>0, <1>a, <1>b DEF MInv, MetasCount, MetasPlaced, MetasFromKeys, AnswerMatchesKey
<1>1. CASE EmptyBatch
  BY <1>0, <1>1, <1>b DEF EmptyBatch, MInv, NonOptSlotsEmpty
<1>2. CASE DispatchKey
  <2>1. /\ idx \in 1..Len(keys) /\ idx' = idx + 1
        /\ pc' = pc /\ results' = results
    BY <1>0, <1>2 DEF DispatchKey
  <2>2. NonOptSlotsEmpty' /\ AnswerMatchesKey'
    BY <1>0, <1>a, <2>1 DEF MInv, NonOptSlotsEmpty, AnswerMatchesKey
  <2>3. idx' - 1 = idx /\ idx - 1 \in 0..Len(keys)
    BY <2>1
  <2>4. CASE keys[idx].hasOptions
    <3>1. metas' = metas /\ idx \notin NonOpt
      BY <1>2, <2>4 DEF DispatchKey, AddMeta, NonOpt
    <3>2. NC[idx] = NC[idx - 1]
      BY <1>0, <2>1, <3>1
    <3>3. MetasCount'
      BY <1>0, <2>3, <3>1, <3>2 DEF MInv, MetasCount
    <3>4. \A j \in NonOpt : j < idx' => j < idx
      BY <1>0, <2>1, <3>1 DEF NonOpt
    <3>5. MetasPlaced'
      <4> SUFFICES ASSUME NEW j \in NonOpt, j < idx'
                   PROVE  NC[j] \in 1..Len(metas') /\ metas'[NC[j]] = MetaOf(keys[j])
        BY <1>0 DEF MetasPlaced
      <4> QED
        BY <3>1, <3>4 DEF MInv, MetasPlaced
    <3>6. MetasFromKeys'
      <4> SUFFICES ASSUME NEW k \in 1..Len(metas')
                   PROVE  \E j \in NonOpt : j < idx' /\ NC[j] = k
        BY <1>0 DEF MetasFromKeys
      <4>1. PICK j \in NonOpt : j < idx /\ NC[j] = k
        BY <3>1 DEF MInv, MetasFromKeys
      <4> QED
        BY <1>0, <2>1, <4>1 DEF NonOpt
    <3> QED
      BY <1>0, <2>2, <3>3, <3>5, <3>6 DEF MInv
  <2>5. CASE ~keys[idx].hasOptions
    <3>1. metas' = Append(metas, MetaOf(keys[idx])) /\ idx \in NonOpt
      BY <1>0, <1>2, <2>1, <2>5 DEF DispatchKey, AddMeta, NonOpt, MetaOf
    <3>2. metas \in Seq(Meta) /\ Len(metas) = NC[idx - 1]
      BY DEF MInv, IInv, TypeOK, MetasCount
    <3>3. NC[idx] = Len(metas) + 1
      BY <1>0, <2>1, <3>1, <3>2
    <3>4. /\ Len(metas') = Len(metas) + 1
          /\ metas'[Len(metas) + 1] = MetaOf(keys[idx])
          /\ \A k \in 1..Len(metas) : metas'[k] = metas[k]
      BY <3>1, <3>2
    <3>5. MetasCount'
      BY <1>0, <2>3, <3>3, <3>4 DEF MetasCount
    <3>6. MetasPlaced'
      <4> SUFFICES ASSUME NEW j \in NonOpt, j < idx'
                   PROVE  NC[j] \in 1..Len(metas') /\ metas'[NC[j]] = MetaOf(keys[j])
        BY <1>0 DEF MetasPlaced
      <4>1. CASE j = idx
        BY <3>3, <3>4, <4>1
      <4>2. CASE j # idx
        <5>1. j < idx
          BY <1>0, <2>1, <4>2 DEF NonOpt
        <5>2. NC[j] \in 1..Len(metas) /\ metas[NC[j]] = MetaOf(keys[j])
          BY <5>1 DEF MInv, MetasPlaced
        <5> QED
          BY <3>2, <3>4, <5>2
      <4> QED
        BY <4>1, <4>2
    <3>7. MetasFromKeys'
      <4> SUFFICES ASSUME NEW k \in 1..Len(metas')
                   PROVE  \E j \in NonOpt : j < idx' /\ NC[j] = k
        BY <1>0 DEF MetasFromKeys
      <4>1. CASE k = Len(metas) + 1
        BY <2>1, <3>1, <3>3, <4>1
      <4>2. CASE k # Len(metas) + 1
        <5>1. k \in 1..Len(metas)
          BY <3>2, <3>4, <4>2
        <5>2. PICK j \in NonOpt : j < idx /\ NC[j] = k
          BY <5>1 DEF MInv, MetasFromKeys
        <5> QED
          BY <1>0, <2>1, <5>2 DEF NonOpt
      <4> QED
        BY <4>1, <4>2
    <3> QED
      BY <1>0, <2>2, <3>5, <3>6, <3>7 DEF MInv
  <2> QED
    BY <2>4, <2>5
<1>3. CASE EndOfKeys
  BY <1>0, <1>3, <1>b DEF EndOfKeys, MInv, NonOptSlotsEmpty
<1>4. ASSUME NEW i \in running, ReadWithOptions(i)
      PROVE  MInv'
  <2>1. /\ i \in DOMAIN keys /\ keys[i].hasOptions /\ i \notin NonOpt
        /\ UNCHANGED <<pc, idx, metas>>
    BY <1>4 DEF MInv, IInv, RunningAreDispatchedOptionKeys, ReadWithOptions, NonOpt
  <2>2. \A j \in DOMAIN keys : j # i => results'[j] = results[j]
    BY <1>0, <1>4 DEF ReadWithOptions, AddResult, TypeOK
  <2>3. results'[i].kind = "data" => results'[i].doc = Expected(i)
    BY <1>0, <1>4, <2>1 DEF ReadWithOptions, AddResult, TypeOK, DataResult, ErrResult, Expected
  <2>4. AnswerMatchesKey'
    BY <1>0, <1>a, <2>2, <2>3 DEF MInv, AnswerMatchesKey
  <2>5. NonOptSlotsEmpty'
    BY <1>0, <2>1, <2>2 DEF MInv, NonOptSlotsEmpty, NonOpt
  <2> QED
    BY <1>0, <2>1, <2>4, <2>5 DEF MInv, MetasCount, MetasPlaced, MetasFromKeys
<1>5. CASE NoClauses
  BY <1>0, <1>5, <1>b DEF NoClauses, MInv, NonOptSlotsEmpty
<1>6. CASE MergedReadFails
  <2>1. UNCHANGED <<idx, metas>> /\ pc' = "done"
    BY <1>6 DEF MergedReadFails
  <2>2. \A i \in DOMAIN keys : results'[i].kind = "data" => results'[i] = results[i]
    BY <1>0, <1>6 DEF MergedReadFails, FillErrorMessage, TypeOK, ErrResult
  <2>3. AnswerMatchesKey'
    BY <1>0, <1>a, <2>2 DEF MInv, AnswerMatchesKey
  <2> QED
    BY <1>0, <2>1, <2>3 DEF MInv, MetasCount, MetasPlaced, MetasFromKeys, NonOptSlotsEmpty
<1>7. CASE MergedReadSucceeds
  <2>1. /\ pc = "wait" /\ running = {} /\ idx = Len(keys) + 1
        /\ UNCHANGED <<idx, metas>> /\ pc' = "done"
    BY <1>7 DEF MergedReadSucceeds, WaitGroupDone, MInv, IInv, LoopFinished
  <2>0. DOMAIN results = DOMAIN keys
    BY <1>0 DEF TypeOK
  <2>2. {j \in DOMAIN results : results[j].kind = "nil"} = NonOpt
    <3>1. DOMAIN results = DOMAIN keys
      BY <2>0
    <3>2. \A j \in NonOpt : results[j].kind = "nil"
      BY <2>1 DEF MInv, NonOptSlotsEmpty
    <3>3. \A j \in DOMAIN keys : keys[j].hasOptions => results[j].kind # "nil"
      BY <1>0, <2>1 DEF MInv, IInv, OptionSlotsPending
    <3> QED
      BY <3>1, <3>2, <3>3 DEF NonOpt
  <2>3. \A i \in DOMAIN keys : results[i].kind = "nil" => NilRank(i) = NC[i]
    BY <2>2 DEF NilRank, NC
  <2>4. MetaWheres = BatchWheres
    <3>1. \A j \in NonOpt : NC[j] \in 1..Len(metas) /\ metas[NC[j]] = MetaOf(keys[j])
      BY <2>1 DEF MInv, MetasPlaced, NonOpt
    <3>2. \A k \in 1..Len(metas) : \E j \in NonOpt : metas[k] = MetaOf(keys[j])
      BY <3>1 DEF MInv, MetasFromKeys
    <3>3. DOMAIN metas = 1..Len(metas)
      BY DEF MInv, IInv, TypeOK
    <3>4. MetaWheres \subseteq BatchWheres
      <4> SUFFICES ASSUME NEW k \in DOMAIN metas PROVE metas[k].where \in BatchWheres
        BY DEF MetaWheres
      <4>1. PICK j \in NonOpt : metas[k] = MetaOf(keys[j])
        BY <3>2, <3>3
      <4> QED
        BY <4>1 DEF MetaOf, BatchWheres, NonOpt
    <3>5. BatchWheres \subseteq MetaWheres
      <4> SUFFICES ASSUME NEW j \in NonOpt PROVE keys[j].where \in MetaWheres
        BY DEF BatchWheres, NonOpt
      <4>0. NC[j] \in 1..Len(metas) /\ metas[NC[j]] = MetaOf(keys[j])
        BY <3>1
      <4>1. NC[j] \in DOMAIN metas /\ metas[NC[j]].where = keys[j].where
        BY <4>0, <3>3 DEF MetaOf
      <4> QED
        BY <4>1 DEF MetaWheres
    <3> QED
      BY <3>4, <3>5
  <2>5. \A i \in DOMAIN keys :
           results[i].kind = "nil" =>
             results'[i] = DataResult(FillDocs(MetaWheres, metas[NC[i]]))
    BY <1>0, <1>7, <2>3 DEF MergedReadSucceeds, FillResults, TypeOK
  <2>6. \A i \in DOMAIN keys :
           results[i].kind = "nil" => metas[NC[i]] = [op |-> keys[i].op, where |-> keys[i].where]
    <3> SUFFICES ASSUME NEW i \in DOMAIN keys, results[i].kind = "nil"
                 PROVE  metas[NC[i]] = [op |-> keys[i].op, where |-> keys[i].where]
      OBVIOUS
    <3>1. i \in NonOpt /\ i < idx
      BY <1>0, <2>0, <2>1, <2>2
    <3> QED
      BY <3>1 DEF MInv, MetasPlaced, MetaOf
  <2>7. \A i \in DOMAIN keys :
           results[i].kind = "nil" => ~keys[i].hasOptions
    BY <2>0, <2>2 DEF NonOpt
  <2>8. \A i \in DOMAIN keys :
           results[i].kind # "nil" => results'[i] = results[i]
    BY <1>0, <1>7 DEF MergedReadSucceeds, FillResults, TypeOK
  <2>9. AnswerMatchesKey'
    <3> SUFFICES ASSUME NEW i \in DOMAIN keys, results'[i].kind = "data"
                 PROVE  results'[i].doc = Expected(i)
      BY <1>0, <1>a DEF AnswerMatchesKey
    <3>1. CASE results[i].kind = "nil"
      <4>0. results'[i] = DataResult(FillDocs(MetaWheres, metas[NC[i]]))
        BY <2>5, <3>1
      <4>1. results'[i].doc = FillDocs(MetaWheres, metas[NC[i]])
        BY <4>0 DEF DataResult
      <4>2. metas[NC[i]] = [op |-> keys[i].op, where |-> keys[i].where]
        BY <2>6, <3>1
      <4>3. Expected(i) = FillDocs(BatchWheres, [op |-> keys[i].op, where |-> keys[i].where])
        BY <2>7, <3>1 DEF Expected
      <4> QED
        BY <2>4, <4>1, <4>2, <4>3
    <3>2. CASE results[i].kind # "nil"
      BY <2>8, <3>2 DEF MInv, AnswerMatchesKey
    <3> QED
      BY <3>1, <3>2
  <2> QED
    BY <1>0, <2>1, <2>9 DEF MInv, MetasCount, MetasPlaced, MetasFromKeys, NonOptSlotsEmpty
<1>8. CASE UNCHANGED vars
  BY <1>0, <1>8, <1>b DEF vars, MInv, NonOptSlotsEmpty
<1>9. QED
  BY <1>0, <1>1, <1>2, <1>3, <1>4, <1>5, <1>6, <1>7, <1>8 DEF Next, BatchFn, MInv

(* AnswerMatchesKey: for every collection, clause set and batch size, and   *)
(* under every interleaving of the goroutines, the data fillResults or a    *)
(* goroutine stores in slot i is the answer to key i's own query: the index *)
(* of fillResults, which counts nil slots, lands on key i's meta.           *)
THEOREM AnswerMatchesKeyHolds == Spec => []AnswerMatchesKey
<1>1. Spec => []MInv
  BY MInvInit, MInvStep, PTL DEF Spec
<1>2. MInv => AnswerMatchesKey
  BY DEF MInv
<1> QED
  BY <1>1, <1>2, PTL

=============================================================================
