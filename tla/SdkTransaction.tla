--------------------------- MODULE SdkTransaction ---------------------------
(***************************************************************************)
(* The public calls on one transaction and its segments (src/segment.c,    *)
(* src/transaction.c, src/datastore.c, src/external.c), made by several    *)
(* threads. A call takes the transaction's lock, works on the segments and *)
(* releases it; what it does before and after, on the wrapper structures   *)
(* the application holds, is done without the lock.                        *)
(*                                                                         *)
(* The segments are those of SegmentTree. The wrapper of a segment         *)
(* (newrelic_segment_t) has the same name as the segment it points to.     *)
(***************************************************************************)
EXTENDS SegmentTree

CONSTANTS
  Thread,
  Kind,     \* the kinds of segments the application starts
  Moved,    \* those of them whose segments it reparents or times
  Call,     \* the calls it makes
  MaxCalls  \* bound on the number of calls

ASSUME SdkAssumption ==
  /\ Nil \notin Thread
  /\ Kind \subseteq {"custom", "datastore", "external"}
  /\ Moved \subseteq Kind
  /\ MaxCalls \in Nat

VARIABLES
  lock,     \* transaction->lock: the thread that holds it, or Nil
  pc,       \* where a thread is in its call
  call,     \* the call it makes
  wrapper,  \* of each segment: "none", "made", "owned" or "freed"
  kind,     \* segment->type, of each segment
  fields,   \* whether a segment's datastore or external strings are allocated
  txnLock,  \* whether the wrapper's txn_lock is set
  txn,      \* "active" or "freed"
  crashed,  \* a thread dereferenced a NULL wrapper
  calls     \* the number of calls made so far

sdkVars == <<lock, pc, call, wrapper, kind, fields, txnLock, txn, crashed, calls>>

allVars == <<vars, sdkVars>>

NoCall == [op |-> "none", seg |-> Nil, par |-> Nil, kind |-> "custom"]

\* newrelic_start_transaction, seen from the threads it hands the
\* transaction to.
SdkInit ==
  /\ Init
  /\ lock = Nil
  /\ pc = [t \in Thread |-> "idle"]
  /\ call = [t \in Thread |-> NoCall]
  /\ wrapper = [s \in Seg |-> "none"]
  /\ kind = [s \in Seg |-> "custom"]
  /\ fields = [s \in Seg |-> FALSE]
  /\ txnLock = [s \in Seg |-> FALSE]
  /\ txn = "active"
  /\ crashed = FALSE
  /\ calls = 0

----------------------------------------------------------------------------
\* What the application promises: it passes segments that it got and has not
\* ended, it does not end a segment that another call uses, and it ends the
\* transaction when no call is under way.

Used(s) == \E t \in Thread : s \in {call[t].seg, call[t].par}

Ending(s) ==
  \E t \in Thread : call[t].seg = s /\ call[t].op \in {"end", "end_other"}

Usable(s) == wrapper[s] = "owned" /\ ~Ending(s)

\* Mutant: no call takes the lock.
TakesNoLock(c) == FALSE

\* The calls that find a lock to take. nrt_mutex_lock of a wrapper's txn_lock
\* that is NULL fails and the call goes on; newrelic_ignore_transaction and
\* newrelic_set_transaction_name take none.
TakesLock(c) ==
  CASE c.op \in {"start", "end", "record", "end_txn"} -> TRUE
    [] c.op \in {"set_parent", "set_timing"} -> txnLock[c.seg]
    [] OTHER -> FALSE

Enter(t, c) ==
  /\ c.op \in Call
  /\ pc[t] = "idle"
  /\ txn = "active"
  /\ ~crashed
  /\ \A u \in Thread : call[u].op # "end_txn"
  /\ calls < MaxCalls
  /\ call' = [call EXCEPT ![t] = c]
  /\ pc' = [pc EXCEPT ![t] = IF TakesLock(c) THEN "lock"
                             ELSE IF c.op = "end_other" THEN "tail" ELSE "body"]
  /\ calls' = calls + 1
  /\ UNCHANGED <<vars, lock, wrapper, kind, fields, txnLock, txn, crashed>>

\* s is the segment the slab allocator would give.
CallStart(t, s, k) ==
  /\ k \in Kind
  /\ state[s] = "free" /\ wrapper[s] = "none" /\ ~Used(s)
  /\ Enter(t, [NoCall EXCEPT !.op = "start", !.seg = s, !.kind = k])

\* newrelic_start_segment: a bad name or category is replaced.
CallStartSegment(t, s) == CallStart(t, s, "custom")

\* newrelic_start_datastore_segment, with parameters it accepts: it changes
\* nothing otherwise.
CallStartDatastore(t, s) == CallStart(t, s, "datastore")

\* newrelic_start_external_segment, with parameters it accepts.
CallStartExternal(t, s) == CallStart(t, s, "external")

\* newrelic_set_segment_parent, and newrelic_set_segment_parent_root with the
\* root as the parent.
CallSetParent(t, s, p) ==
  /\ s # p
  /\ Usable(s) /\ kind[s] \in Moved
  /\ p = Root \/ Usable(p)
  /\ Enter(t, [NoCall EXCEPT !.op = "set_parent", !.seg = s, !.par = p])

\* newrelic_set_segment_timing
CallSetTiming(t, s) ==
  /\ Usable(s) /\ kind[s] \in Moved
  /\ Enter(t, [NoCall EXCEPT !.op = "set_timing", !.seg = s])

\* newrelic_end_segment, on the transaction of the segment or on another one:
\* then nothing is done but to free the wrapper.
CallEnd(t, s, op) ==
  /\ wrapper[s] = "owned" /\ ~Used(s)
  /\ Enter(t, [NoCall EXCEPT !.op = op, !.seg = s])

\* The calls that record something on the transaction under its lock, and the
\* two that change it without: newrelic_ignore_transaction and
\* newrelic_set_transaction_name.
CallOnTxn(t, op) == Enter(t, [NoCall EXCEPT !.op = op])

CallEndTxn(t) ==
  /\ \A u \in Thread : pc[u] = "idle"
  /\ Enter(t, [NoCall EXCEPT !.op = "end_txn"])

----------------------------------------------------------------------------
\* nrt_mutex_lock
Acquire(t) ==
  /\ pc[t] = "lock"
  /\ lock = Nil
  /\ lock' = t
  /\ pc' = [pc EXCEPT ![t] = "body"]
  /\ UNCHANGED <<vars, call, wrapper, kind, fields, txnLock, txn, crashed, calls>>

Goto(t, label) ==
  /\ pc' = [pc EXCEPT ![t] = label]
  /\ UNCHANGED <<lock, call, txnLock, txn, crashed, calls>>

\* newrelic_segment_create; a datastore or external segment keeps copies of
\* its parameters.
MakeSegment(s, k) ==
  /\ Start(s, Main)
  /\ wrapper' = [wrapper EXCEPT ![s] = "made"]
  /\ kind' = [kind EXCEPT ![s] = k]
  /\ fields' = [fields EXCEPT ![s] = k # "custom"]

\* Mutant: a segment that could not be started leaves the function at once.
BodyStartLeaves(t, k) ==
  /\ pc[t] = "body" /\ call[t].op = "start" /\ call[t].kind = k
  /\ \/ MakeSegment(call[t].seg, k) /\ Goto(t, "unlock")
     \/ /\ status # "recording"
        /\ pc' = [pc EXCEPT ![t] = "idle"]
        /\ call' = [call EXCEPT ![t] = NoCall]
        /\ UNCHANGED <<vars, lock, wrapper, kind, fields, txnLock, txn, crashed,
                       calls>>

\* The locked part of the three start functions: nr_segment_start refuses a
\* transaction that does not record.
BodyStart(t, k) ==
  /\ pc[t] = "body" /\ call[t].op = "start" /\ call[t].kind = k
  /\ \/ MakeSegment(call[t].seg, k)
     \/ status # "recording" /\ UNCHANGED <<vars, wrapper, kind, fields>>
  /\ Goto(t, "unlock")

BodyStartSegment(t) == BodyStart(t, "custom")

BodyStartDatastore(t) == BodyStart(t, "datastore")

BodyStartExternal(t) == BodyStart(t, "external")

\* nr_segment_set_parent: the checks, and then the change. They are two steps
\* because without a lock another call may come between them.
BodySetParent(t) ==
  LET s == call[t].seg
      p == call[t].par
  IN /\ pc[t] = "body" /\ call[t].op = "set_parent"
     /\ Goto(t, IF parent[s] = p \/ IsAncestorOrSelf(s, p)
                  THEN "unlock" ELSE "apply")
     /\ UNCHANGED <<vars, wrapper, kind, fields>>

Apply(t) ==
  LET s == call[t].seg
      p == call[t].par
  IN /\ pc[t] = "apply"
     /\ children' =
          AddChild(IF parent[s] = Nil THEN children
                   ELSE RemoveChild(children, parent[s], s), p, s)
     /\ parent' = [parent EXCEPT ![s] = p]
     /\ Goto(t, "unlock")
     /\ UNCHANGED <<state, ctx, stack, count, status, wrapper, kind, fields>>

BodyEnd(t, k) ==
  /\ pc[t] = "body" /\ call[t].op = "end"
  /\ kind[call[t].seg] = k
  /\ End(call[t].seg)
  /\ fields' = [fields EXCEPT ![call[t].seg] = FALSE]
  /\ Goto(t, "unlock")
  /\ UNCHANGED <<wrapper, kind>>

\* newrelic_end_segment of a custom segment, which has no strings to free.
BodyEndSegment(t) == BodyEnd(t, "custom")

\* newrelic_end_datastore_segment
BodyEndDatastore(t) == BodyEnd(t, "datastore")

\* newrelic_end_external_segment
BodyEndExternal(t) == BodyEnd(t, "external")

\* nr_txn_ignore
BodyIgnore(t) ==
  /\ pc[t] = "body" /\ call[t].op = "ignore"
  /\ Ignore \/ (status = "ignored" /\ UNCHANGED vars)
  /\ Goto(t, "unlock")
  /\ UNCHANGED <<wrapper, kind, fields>>

\* Bodies that do not touch the tree.
BodyOther(t) ==
  /\ pc[t] = "body"
  /\ call[t].op \in {"set_timing", "record", "set_name"}
  /\ Goto(t, "unlock")
  /\ UNCHANGED <<vars, wrapper, kind, fields>>

\* nr_txn_end, and nr_txn_destroy of what it leaves.
BodyEndTxn(t) ==
  /\ pc[t] = "body" /\ call[t].op = "end_txn"
  /\ EndTxn \/ EndTxnIgnored
  /\ Goto(t, "unlock")
  /\ UNCHANGED <<wrapper, kind, fields>>

\* nrt_mutex_unlock
Unlock(t) ==
  /\ pc[t] = "unlock"
  /\ lock' = IF lock = t THEN Nil ELSE lock
  /\ pc' = [pc EXCEPT ![t] = "tail"]
  /\ UNCHANGED <<vars, call, wrapper, kind, fields, txnLock, txn, crashed, calls>>

Return(t) ==
  /\ pc[t] = "tail"
  /\ pc' = [pc EXCEPT ![t] = "idle"]
  /\ call' = [call EXCEPT ![t] = NoCall]
  /\ UNCHANGED <<vars, lock, kind, calls>>

\* The wrapper goes to the application. newrelic_start_segment gives it the
\* transaction's lock first, whether there is a wrapper or not; the other two
\* leave txn_lock NULL.
ReturnStart(t) ==
  LET s == call[t].seg
      made == wrapper[s] = "made"
      custom == call[t].kind = "custom"
  IN /\ call[t].op = "start"
     /\ Return(t)
     /\ wrapper' = IF made THEN [wrapper EXCEPT ![s] = "owned"] ELSE wrapper
     /\ txnLock' = IF made /\ custom THEN [txnLock EXCEPT ![s] = TRUE] ELSE txnLock
     /\ crashed' = (~made /\ custom)
     /\ UNCHANGED <<fields, txn>>

\* Mutant: the strings of an external segment are forgotten.
FreedDatastoreFields(s) == [fields EXCEPT ![s] = @ /\ kind[s] # "datastore"]

\* newrelic_destroy_datastore_segment_fields or
\* newrelic_destroy_external_segment_fields, by the type of the segment.
FreedFields(s) ==
  [fields EXCEPT ![s] = @ /\ kind[s] \notin {"datastore", "external"}]

\* Mutant: a segment that was ended is left to the application to free.
ReturnEndKeeps(t) ==
  /\ call[t].op \in {"end", "end_other"}
  /\ Return(t)
  /\ wrapper' = [wrapper EXCEPT ![call[t].seg] =
                    IF call[t].op = "end" THEN @ ELSE "freed"]
  /\ fields' = FreedFields(call[t].seg)
  /\ UNCHANGED <<txnLock, txn, crashed>>

\* newrelic_segment_destroy, whatever became of the segment.
ReturnEnd(t) ==
  /\ call[t].op \in {"end", "end_other"}
  /\ Return(t)
  /\ wrapper' = [wrapper EXCEPT ![call[t].seg] = "freed"]
  /\ fields' = FreedFields(call[t].seg)
  /\ UNCHANGED <<txnLock, txn, crashed>>

\* newrelic_end_transaction frees the transaction last.
ReturnEndTxn(t) ==
  /\ call[t].op = "end_txn"
  /\ Return(t)
  /\ txn' = "freed"
  /\ UNCHANGED <<wrapper, fields, txnLock, crashed>>

ReturnOther(t) ==
  /\ call[t].op \notin {"start", "end", "end_other", "end_txn"}
  /\ Return(t)
  /\ UNCHANGED <<wrapper, fields, txnLock, txn, crashed>>

----------------------------------------------------------------------------
Step(t) ==
  \/ Acquire(t)
  \/ BodyStartSegment(t)
  \/ BodyStartDatastore(t)
  \/ BodyStartExternal(t)
  \/ BodySetParent(t)
  \/ Apply(t)
  \/ BodyEndSegment(t)
  \/ BodyEndDatastore(t)
  \/ BodyEndExternal(t)
  \/ BodyIgnore(t)
  \/ BodyOther(t)
  \/ BodyEndTxn(t)
  \/ Unlock(t)
  \/ ReturnStart(t)
  \/ ReturnEnd(t)
  \/ ReturnEndTxn(t)
  \/ ReturnOther(t)

NewCall(t) ==
  \/ \E s \in Seg : CallStartSegment(t, s)
  \/ \E s \in Seg : CallStartDatastore(t, s)
  \/ \E s \in Seg : CallStartExternal(t, s)
  \/ \E s, p \in Seg : CallSetParent(t, s, p)
  \/ \E s \in Seg : CallSetTiming(t, s)
  \/ \E s \in Seg, op \in {"end", "end_other"} : CallEnd(t, s, op)
  \/ \E op \in {"record", "ignore", "set_name"} : CallOnTxn(t, op)
  \/ CallEndTxn(t)

SdkNext == \E t \in Thread : ~crashed /\ (NewCall(t) \/ Step(t))

SdkSpec == SdkInit /\ [][SdkNext]_allVars

\* A thread inside a call goes on with it.
SdkFairSpec == SdkSpec /\ \A t \in Thread : WF_allVars(~crashed /\ Step(t))

----------------------------------------------------------------------------
\* What the threads do to the segments together is what one thread could do
\* with the calls of nr_segment.c: the calls are atomic although
\* nr_segment_set_parent looks first and changes the tree afterwards, and
\* although newrelic_ignore_transaction takes no lock.
ImplementsTree == Spec

\* A wrapper in the application's hands points to a segment that is still in
\* the tree and has not ended, so ending or reparenting it finds a segment.
OwnedIsLive ==
  txn = "active" => \A s \in Seg : Usable(s) => state[s] = "live"

\* A wrapper is freed with everything it owns, on every way through
\* newrelic_end_segment: the strings of datastore and external segments go
\* when the segment ends, and also when it is ended on another transaction.
NothingLeaks == \A s \in Seg : wrapper[s] = "freed" => ~fields[s]

\* Every call returns: no path through newrelic_start_segment,
\* newrelic_end_segment or the others keeps the transaction's lock. (A program
\* that starts a segment on a transaction it had ignored does not get as far.)
CallsReturn == \A t \in Thread : pc[t] # "idle" ~> pc[t] = "idle" \/ crashed
=============================================================================
