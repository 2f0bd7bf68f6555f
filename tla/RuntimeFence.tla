---------------------------- MODULE RuntimeFence ----------------------------
(***************************************************************************)
(* Exclusive permission to mutate the runtime of one scope:                *)
(* RuntimeSideEffectFence (execution/runtime_fence.py).  Entering takes    *)
(* the thread lock and the file lock, blocking while another worker is     *)
(* inside, compares the caller's token with the durable record, and writes *)
(* the record before it returns.  A process that dies drops the lock and   *)
(* leaves the record.  The journal is not consulted: a worker whose lease  *)
(* ran out still enters, until a newer token has entered before it.        *)
(***************************************************************************)
EXTENDS Integers

CONSTANTS NoOperation, NoWorker

VARIABLES
  lock,     \* the worker inside the fence
  record    \* the durable fence record: last operation and token let in

runtimeFenceVars == <<lock, record>>

NoRecord == [op |-> NoOperation, token |-> 0]

(* Faulty variant: tokens are not compared.                                *)
AuthorizeAnything(o, token) == TRUE

(* _authorize                                                              *)
Authorized(o, token) ==
  /\ token >= record.token
  /\ token = record.token => o = record.op

EnterFence(w, o, token) ==
  /\ lock = NoWorker
  /\ Authorized(o, token)
  /\ lock' = w
  /\ record' = [op |-> o, token |-> token]

(* The caller gets the lock, is rejected, and gives it back.               *)
RejectedByFence(o, token) ==
  /\ lock = NoWorker
  /\ ~Authorized(o, token)
  /\ UNCHANGED runtimeFenceVars

LeaveFence(w) ==
  /\ lock = w
  /\ lock' = NoWorker
  /\ UNCHANGED record

(* The process of worker w ends, wherever it was.                          *)
ProcessEnds(w) ==
  /\ lock' = IF lock = w THEN NoWorker ELSE lock
  /\ UNCHANGED record

RuntimeFenceInit == lock = NoWorker /\ record = NoRecord

=============================================================================
