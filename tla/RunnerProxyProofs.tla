--------------------------- MODULE RunnerProxyProofs ---------------------------
(***************************************************************************)
(* Proofs about the runner handlers of RunnerProxy: the state stays well   *)
(* typed, a forwarding handler answers exactly once, and the runner gets   *)
(* the internal token and the client's own body.                            *)
(***************************************************************************)
EXTENDS RunnerProxy, TLAPS

\* The positions before a handler has answered.
Pending == {"start", "forward", "hook", "token", "dial"}

(* The inductive invariant.                                                *)
RInv ==
    /\ TypeOK
    \* Nothing is written before the handler answers.
    /\ pc \in Pending => sent = <<>>
    \* Only the log handler streams; a forwarding handler that returned has
    \* written one response.
    /\ h # LogsHandler => pc # "stream" /\ (pc = "done" => Len(sent) = 1)
    \* r.Body holds the client's body until the handler returns.
    /\ pc # "done" => bodyLeft = body
    \* The runner is called only after the internal token was set.
    /\ pc = "dial" => authHeader = "internal"
    /\ ForwardedRequestFaithful

-----------------------------------------------------------------------------
(* Lemmas about the handler tables and the writes.                         *)

\* Appending a write keeps sent a sequence of writes, one longer.
LEMMA AppendWrite ==
    ASSUME NEW s \in Seq(Writes), NEW wr \in Writes
    PROVE  /\ Append(s, wr) \in Seq(Writes)
           /\ Len(Append(s, wr)) = Len(s) + 1
OBVIOUS

\* The writes the handlers make.
LEMMA WritesTyped ==
    /\ \A c \in Codes : Err(c) \in Writes
    /\ \A k \in WriteKinds, c \in Codes : Write(k, c) \in Writes
BY DEF Err, Write, Writes, WriteKinds

-----------------------------------------------------------------------------
(* The inductive invariant holds initially and is preserved by every step. *)

\* The initial state satisfies the inductive invariant.
LEMMA RInvInit == Init => RInv
<1> SUFFICES ASSUME Init PROVE RInv
  OBVIOUS
<1>1. attrs \in AttrMaps
  BY DEF Init, AttrMaps
<1>3. sent \in Seq(Writes)
  BY DEF Init
<1>4. upstream \in Upstreams
  BY DEF Init, Upstreams
<1>5. lines \in 0..MaxLines
  BY RunnerProxyAssumption DEF Init
<1>2. TypeOK
  BY <1>1, <1>3, <1>4, <1>5 DEF Init, TypeOK
<1>. QED  BY <1>2 DEF Init, RInv, Pending, ForwardedRequestFaithful

\* The request the runner receives is well typed.
LEMMA SentTyped == TypeOK => Sent \in Upstreams
BY DEF Sent, Upstreams, TypeOK

\* Every step keeps the state well typed: one case per action.
LEMMA TypeOKStep == TypeOK /\ [Next]_vars => TypeOK'
<1> SUFFICES ASSUME TypeOK, [Next]_vars PROVE TypeOK'
  OBVIOUS
<1>1. CASE ValidateToken
  <2>1. sent' \in Seq(Writes)
    BY <1>1, WritesTyped, AppendWrite DEF WriteKinds, Codes, reqVars, streamVars, ValidateToken, TypeOK, Respond
  <2>2. attrs' \in AttrMaps
    BY <1>1 DEF ValidateToken, TypeOK, AttrMaps
  <2>. QED  BY <1>1, <2>1, <2>2 DEF ValidateToken, TypeOK, Respond, reqVars, streamVars
<1>2. CASE ForwardNoRunner
  <2>1. sent' \in Seq(Writes)
    BY <1>2, WritesTyped, AppendWrite DEF WriteKinds, Codes, reqVars, streamVars, ForwardNoRunner, TypeOK, Respond
  <2>. QED  BY <1>2, <2>1 DEF ForwardNoRunner, TypeOK, Respond, reqVars, streamVars
<1>3. CASE ReadBody
  <2>1. sent' \in Seq(Writes)
    BY <1>3, WritesTyped, AppendWrite DEF WriteKinds, Codes, reqVars, streamVars, ReadBody, TypeOK, Respond
  <2>. QED  BY <1>3, <2>1 DEF ReadBody, TypeOK, Respond, reqVars, streamVars
<1>4. CASE InvokeHook
  <2>1. sent' \in Seq(Writes)
    BY <1>4, WritesTyped, AppendWrite DEF WriteKinds, Codes, reqVars, streamVars, InvokeHook, TypeOK, Respond
  <2>. QED  BY <1>4, <2>1 DEF InvokeHook, TypeOK, Respond, reqVars, streamVars
<1>5. CASE InternalToken
  <2>1. sent' \in Seq(Writes)
    BY <1>5, WritesTyped, AppendWrite DEF WriteKinds, Codes, reqVars, streamVars, InternalToken, TypeOK, Respond
  <2>. QED  BY <1>5, <2>1 DEF InternalToken, TypeOK, Respond, reqVars, streamVars
<1>6. CASE ForwardDo
  <2>1. sent' \in Seq(Writes)
    BY <1>6, WritesTyped, AppendWrite DEF WriteKinds, Codes, reqVars, streamVars, ForwardDo, TypeOK, Respond
  <2>2. upstream' \in Upstreams
    <3>1. Sent \in Upstreams
      BY SentTyped
    <3>2. upstream' \in {upstream, Sent}
      BY <1>6 DEF ForwardDo, Respond
    <3>. QED  BY <3>1, <3>2 DEF TypeOK
  <2>. QED  BY <1>6, <2>1, <2>2 DEF ForwardDo, TypeOK, Respond, reqVars, streamVars
<1>7. CASE LogsNoRunner
  <2>1. sent' \in Seq(Writes)
    BY <1>7, WritesTyped, AppendWrite DEF WriteKinds, Codes, reqVars, streamVars, LogsNoRunner, TypeOK, Respond
  <2>. QED  BY <1>7, <2>1 DEF LogsNoRunner, TypeOK, Respond, reqVars, streamVars
<1>8. CASE LogsValidateToken
  <2>1. sent' \in Seq(Writes)
    BY <1>8, WritesTyped, AppendWrite DEF WriteKinds, Codes, reqVars, streamVars, LogsValidateToken, TypeOK, Respond
  <2>2. attrs' \in AttrMaps
    BY <1>8 DEF LogsValidateToken, TypeOK, AttrMaps
  <2>. QED  BY <1>8, <2>1, <2>2 DEF LogsValidateToken, TypeOK, Respond, reqVars, streamVars
<1>9. CASE LogsDo
  <2>1. sent' \in Seq(Writes)
    BY <1>9, WritesTyped, AppendWrite DEF WriteKinds, Codes, reqVars, streamVars, LogsDo, TypeOK, Respond
  <2>2. upstream' \in Upstreams
    <3>1. Sent \in Upstreams
      BY SentTyped
    <3>2. upstream' \in {upstream, Sent}
      BY <1>9 DEF LogsDo, Respond
    <3>. QED  BY <3>1, <3>2 DEF TypeOK
  <2>. QED  BY <1>9, <2>1, <2>2, RunnerProxyAssumption DEF LogsDo, TypeOK, Respond, reqVars, streamVars
<1>10. CASE ClientDisconnects
  <2>1. sent' \in Seq(Writes)
    BY <1>10, WritesTyped, AppendWrite DEF WriteKinds, Codes, reqVars, streamVars, ClientDisconnects, TypeOK, Respond
  <2>. QED  BY <1>10, <2>1 DEF ClientDisconnects, TypeOK, Respond, reqVars, streamVars
<1>11. CASE StreamLine
  <2>1. sent' \in Seq(Writes)
    BY <1>11, WritesTyped, AppendWrite DEF WriteKinds, Codes, reqVars, streamVars, StreamLine, TypeOK, Respond
  <2>2. lines' \in 0..MaxLines
    <3>1. lines' = lines - 1 /\ lines > 0
      BY <1>11 DEF StreamLine
    <3>. QED  BY <3>1, RunnerProxyAssumption DEF TypeOK
  <2>. QED  BY <1>11, <2>1, <2>2 DEF StreamLine, TypeOK, reqVars, streamVars
<1>12. CASE StreamEOF
  <2>1. sent' \in Seq(Writes)
    BY <1>12, WritesTyped, AppendWrite DEF WriteKinds, Codes, reqVars, streamVars, StreamEOF, TypeOK, Respond
  <2>. QED  BY <1>12, <2>1 DEF StreamEOF, TypeOK, Respond, reqVars, streamVars
<1>13. CASE StreamReadError
  <2>1. sent' \in Seq(Writes)
    BY <1>13, WritesTyped, AppendWrite DEF WriteKinds, Codes, reqVars, streamVars, StreamReadError, TypeOK, Respond
  <2>. QED  BY <1>13, <2>1 DEF StreamReadError, TypeOK, Respond, reqVars, streamVars
<1>14. CASE UNCHANGED vars
  BY <1>14 DEF vars, TypeOK
<1>. QED  BY <1>1, <1>2, <1>3, <1>4, <1>5, <1>6, <1>7, <1>8, <1>9, <1>10, <1>11, <1>12, <1>13, <1>14 DEF Next

\* Every step preserves the rest of the inductive invariant: one case per
\* action.
LEMMA RInvStep == RInv /\ [Next]_vars => RInv'
<1> SUFFICES ASSUME RInv, [Next]_vars PROVE RInv'
  OBVIOUS
<1>0. TypeOK /\ TypeOK'
  BY TypeOKStep DEF RInv
<1>1. CASE ValidateToken
  BY <1>0, <1>1, WritesTyped, AppendWrite
  DEF reqVars, streamVars, WriteKinds, Codes, ValidateToken, RInv, Respond, Pending, ForwardedRequestFaithful, ForwardHandlers
<1>2. CASE ForwardNoRunner
  BY <1>0, <1>2, WritesTyped, AppendWrite
  DEF reqVars, streamVars, WriteKinds, Codes, ForwardNoRunner, RInv, Respond, Pending, ForwardedRequestFaithful
<1>3. CASE ReadBody
  BY <1>0, <1>3, WritesTyped, AppendWrite
  DEF reqVars, streamVars, WriteKinds, Codes, ReadBody, RInv, Respond, Pending, ForwardedRequestFaithful
<1>4. CASE InvokeHook
  BY <1>0, <1>4, WritesTyped, AppendWrite
  DEF reqVars, streamVars, WriteKinds, Codes, InvokeHook, RInv, Respond, Pending, ForwardedRequestFaithful
<1>5. CASE InternalToken
  BY <1>0, <1>5, WritesTyped, AppendWrite
  DEF reqVars, streamVars, WriteKinds, Codes, InternalToken, RInv, Respond, Pending, ForwardedRequestFaithful
<1>6. CASE ForwardDo
  BY <1>0, <1>6, WritesTyped, AppendWrite
  DEF reqVars, streamVars, WriteKinds, Codes, ForwardDo, RInv, Respond, Pending, ForwardedRequestFaithful, Sent, NoCall
<1>7. CASE LogsNoRunner
  BY <1>0, <1>7, WritesTyped, AppendWrite
  DEF reqVars, streamVars, WriteKinds, Codes, LogsNoRunner, RInv, Respond, Pending, ForwardedRequestFaithful
<1>8. CASE LogsValidateToken
  BY <1>0, <1>8, WritesTyped, AppendWrite
  DEF reqVars, streamVars, WriteKinds, Codes, LogsValidateToken, RInv, Respond, Pending, ForwardedRequestFaithful
<1>9. CASE LogsDo
  BY <1>0, <1>9, WritesTyped, AppendWrite
  DEF reqVars, streamVars, WriteKinds, Codes, LogsDo, RInv, Respond, Pending, ForwardedRequestFaithful, Sent, NoCall
<1>10. CASE ClientDisconnects
  BY <1>0, <1>10, WritesTyped, AppendWrite
  DEF reqVars, streamVars, WriteKinds, Codes, ClientDisconnects, RInv, Respond, Pending, ForwardedRequestFaithful
<1>11. CASE StreamLine
  BY <1>0, <1>11, WritesTyped, AppendWrite
  DEF reqVars, streamVars, WriteKinds, Codes, StreamLine, RInv, Respond, Pending, ForwardedRequestFaithful
<1>12. CASE StreamEOF
  BY <1>0, <1>12, WritesTyped, AppendWrite
  DEF reqVars, streamVars, WriteKinds, Codes, StreamEOF, RInv, Respond, Pending, ForwardedRequestFaithful
<1>13. CASE StreamReadError
  BY <1>0, <1>13, WritesTyped, AppendWrite
  DEF reqVars, streamVars, WriteKinds, Codes, StreamReadError, RInv, Respond, Pending, ForwardedRequestFaithful
<1>14. CASE UNCHANGED vars
  BY <1>0, <1>14 DEF vars, RInv, Pending, ForwardedRequestFaithful
<1>. QED  BY <1>1, <1>2, <1>3, <1>4, <1>5, <1>6, <1>7, <1>8, <1>9, <1>10, <1>11, <1>12, <1>13, <1>14 DEF Next

-----------------------------------------------------------------------------
(* Theorems                                                                *)

\* The initial state is well typed.
LEMMA TypeOKInit == Init => TypeOK
BY RInvInit DEF RInv

(* TypeOK: every state of a request is well typed, whatever the handlers,   *)
(* the bounds, and the answers of the admin manager, the hooks and the      *)
(* runner.                                                                  *)
THEOREM TypeCorrect == Spec => []TypeOK
BY TypeOKInit, TypeOKStep, PTL DEF Spec

(* The inductive invariant holds in every reachable state.                 *)
THEOREM RInvHolds == Spec => []RInv
BY RInvInit, RInvStep, PTL DEF Spec

(* ExactlyOneResponse: on every path through forwardRequestToRunner and the *)
(* handlers that call it, exactly one response is written, and it has been  *)
(* written when the handler returns.                                        *)
THEOREM ExactlyOneResponseHolds == Spec => []ExactlyOneResponse
<1>1. RInv => ExactlyOneResponse
  <2> SUFFICES ASSUME RInv, h # LogsHandler
               PROVE  Len(sent) <= 1 /\ (pc = "done" => Len(sent) = 1)
    BY DEF ExactlyOneResponse
  <2>1. CASE pc \in Pending
    BY <2>1 DEF RInv, Pending
  <2>2. CASE pc = "done"
    <3>1. Len(sent) = 1
      BY <2>2, Zenon DEF RInv
    <3>. QED  BY <2>2, <3>1
  <2>3. pc \in Pending \/ pc = "done"
    BY DEF RInv, TypeOK, Pending
  <2>. QED  BY <2>1, <2>2, <2>3
<1>. QED  BY <1>1, RInvHolds, PTL

(* ForwardedRequestFaithful: the runner receives the internal token, never  *)
(* the user's, and the exact POST body the client sent, although            *)
(* forwardRequestToRunner consumed r.Body for the hook payload.              *)
THEOREM ForwardedRequestFaithfulHolds == Spec => []ForwardedRequestFaithful
<1>1. RInv => ForwardedRequestFaithful
  BY DEF RInv
<1>. QED  BY <1>1, RInvHolds, PTL

=============================================================================
