----------------------------- MODULE SegmentTree -----------------------------
(***************************************************************************)
(* The segments of one transaction (axiom/nr_segment.c): a tree that grows *)
(* at the current segment, that callers may rearrange while it grows, and  *)
(* the stacks, one per asynchronous context, that say which segment is     *)
(* current (axiom/nr_txn.c).                                               *)
(*                                                                         *)
(* A segment's children are an array in the code; the model keeps how many *)
(* times each segment occurs in it and forgets the order, so that a        *)
(* segment left in two arrays, or twice in one, is still visible.          *)
(***************************************************************************)
EXTENDS Naturals, Sequences, FiniteSets

CONSTANTS
  Seg,      \* the segments the slab allocator may hand out
  Root,     \* the one nr_txn_begin starts, txn->segment_root
  Context,  \* async contexts
  Main,     \* the default context (async_context NULL)
  Nil

ASSUME SegAssumption == Root \in Seg /\ Nil \notin Seg /\ Main \in Context

VARIABLES
  state,     \* of each segment: "free", "live", "ended" or "gone"
  parent,    \* segment->parent
  children,  \* children[p][s]: occurrences of s in p's children
  ctx,       \* segment->async_context
  stack,     \* the default parent stack and txn->parent_stacks
  count,     \* txn->segment_count
  status     \* of the transaction: "recording", "ignored" or "complete"

vars == <<state, parent, children, ctx, stack, count, status>>

Present == {s \in Seg : state[s] \in {"live", "ended"}}

NoChildren == [s \in Seg |-> 0]

\* nr_txn_begin, which ends with nr_segment_start of the root segment.
Init ==
  /\ state = [s \in Seg |-> IF s = Root THEN "live" ELSE "free"]
  /\ parent = [s \in Seg |-> Nil]
  /\ children = [p \in Seg |-> NoChildren]
  /\ ctx = [s \in Seg |-> Main]
  /\ stack = [c \in Context |-> IF c = Main THEN <<Root>> ELSE <<>>]
  /\ count = 0
  /\ status = "recording"

----------------------------------------------------------------------------
\* nr_stack_get_top
Top(st) == IF st = <<>> THEN Nil ELSE st[Len(st)]

\* The segment a new segment of context c goes under: the top of its stack,
\* or the current segment of the main context if c has none.
CurrentSegment(c) ==
  IF Top(stack[c]) = Nil THEN Top(stack[Main]) ELSE Top(stack[c])

\* nr_segment_children_add
AddChild(ch, p, s) == [ch EXCEPT ![p][s] = @ + 1]

\* Mutant: the segment stays among the children of its former parent.
KeepChild(ch, p, s) == ch

\* nr_segment_children_remove, of one occurrence if there is one.
RemoveChild(ch, p, s) ==
  [ch EXCEPT ![p][s] = IF @ > 0 THEN @ - 1 ELSE 0]

\* nr_segment_start without a parent: segment s becomes the current one.
Start(s, c) ==
  /\ status = "recording"
  /\ state[s] = "free"
  /\ state' = [state EXCEPT ![s] = "live"]
  /\ ctx' = [ctx EXCEPT ![s] = c]
  /\ parent' = [parent EXCEPT ![s] = CurrentSegment(c)]
  /\ children' = IF CurrentSegment(c) = Nil THEN children
                 ELSE AddChild(children, CurrentSegment(c), s)
  /\ stack' = [stack EXCEPT ![c] = Append(@, s)]
  /\ UNCHANGED <<count, status>>

\* nr_segment_start with a parent, which callers give together with an
\* async context: the new segment does not become the current one.
StartUnder(s, p, c) ==
  /\ status = "recording"
  /\ state[s] = "free"
  /\ p \in Present
  /\ c # Main
  /\ state' = [state EXCEPT ![s] = "live"]
  /\ ctx' = [ctx EXCEPT ![s] = c]
  /\ parent' = [parent EXCEPT ![s] = p]
  /\ children' = AddChild(children, p, s)
  /\ UNCHANGED <<stack, count, status>>

\* Mutant: only a segment's own parent is compared.
IsParentOrSelf(s, p) == s = p

\* nr_segment_set_parent's loop from p along the parents meets s: s is in
\* every set that holds p and the parents of its members.
IsAncestorOrSelf(s, p) ==
  \A S \in SUBSET Seg :
    (p \in S /\ \A x \in S : parent[x] \in S \cup {Nil}) => s \in S

\* nr_segment_set_parent, where it changes anything.
SetParent(s, p) ==
  /\ status # "complete"
  /\ s \in Present
  /\ p \in Present
  /\ parent[s] # p
  /\ ~IsAncestorOrSelf(s, p)
  /\ children' =
       AddChild(IF parent[s] = Nil THEN children
                ELSE RemoveChild(children, parent[s], s), p, s)
  /\ parent' = [parent EXCEPT ![s] = p]
  /\ UNCHANGED <<state, ctx, stack, count, status>>

\* Mutant: the top of the stack is popped, whichever segment it is.
PopStack(st, s) == IF st = <<>> THEN st ELSE SubSeq(st, 1, Len(st) - 1)

\* nr_stack_remove_topmost, which nr_txn_retire_current_segment calls:
\* segments may end in any order.
RemoveTopmost(st, s) ==
  LET I == {i \in 1..Len(st) : st[i] = s}
      k == CHOOSE i \in I : \A j \in I : j <= i
  IN IF I = {} THEN st
     ELSE [i \in 1..(Len(st) - 1) |-> IF i < k THEN st[i] ELSE st[i + 1]]

\* Mutant: the segment is not counted.
EndUncounted(s) ==
  /\ status # "complete"
  /\ state[s] = "live"
  /\ s # Root
  /\ state' = [state EXCEPT ![s] = "ended"]
  /\ stack' = [stack EXCEPT ![ctx[s]] = RemoveTopmost(@, s)]
  /\ UNCHANGED <<parent, children, ctx, count, status>>

\* nr_segment_end. Only nr_txn_end ends the root segment.
End(s) ==
  /\ status # "complete"
  /\ state[s] = "live"
  /\ s # Root
  /\ state' = [state EXCEPT ![s] = "ended"]
  /\ stack' = [stack EXCEPT ![ctx[s]] = RemoveTopmost(@, s)]
  /\ count' = count + 1
  /\ UNCHANGED <<parent, children, ctx, status>>

\* nr_segment_children_reparent: the children of s become children of p.
Reparented(s, p) == [x \in Seg |-> IF children[s][x] > 0 THEN p ELSE parent[x]]

\* Mutant: the segment is taken out and its children are left where they are.
UnhookAlone(s) ==
  /\ parent[s] # Nil
  /\ children' = [RemoveChild(children, parent[s], s) EXCEPT ![s] = NoChildren]
  /\ parent' = [parent EXCEPT ![s] = Nil]
  /\ count' = count - 1

\* Mutant: a segment is discounted once for itself and once more for its
\* parent's array.
UnhookTwice(s) ==
  /\ parent[s] # Nil
  /\ children' =
       [RemoveChild(children, parent[s], s) EXCEPT
          ![parent[s]] = [x \in Seg |-> @[x] + children[s][x]],
          ![s] = NoChildren]
  /\ parent' = [Reparented(s, parent[s]) EXCEPT ![s] = Nil]
  /\ count' = count - 2

\* nr_segment_deinit_impl: s is unhooked from the tree and its children go to
\* its parent.
Unhook(s) ==
  /\ parent[s] # Nil
  /\ children' =
       [RemoveChild(children, parent[s], s) EXCEPT
          ![parent[s]] = [x \in Seg |-> @[x] + children[s][x]],
          ![s] = NoChildren]
  /\ parent' = [Reparented(s, parent[s]) EXCEPT ![s] = Nil]
  /\ count' = count - 1

\* nr_segment_discard: callers end a segment before they discard it.
Discard(s) ==
  /\ status # "complete"
  /\ state[s] = "ended"
  /\ Unhook(s)
  /\ state' = [state EXCEPT ![s] = "gone"]
  /\ UNCHANGED <<ctx, stack, status>>

\* nr_segment_deinit, of a custom segment without metrics: the segment is
\* zeroed and may be started again with nr_segment_init.
Deinit(s) ==
  /\ status # "complete"
  /\ state[s] = "ended"
  /\ Unhook(s)
  /\ state' = [state EXCEPT ![s] = "free"]
  /\ ctx' = [ctx EXCEPT ![s] = Main]
  /\ UNCHANGED <<stack, status>>

\* nr_txn_ignore stops recording; the segments stay.
Ignore ==
  /\ status = "recording"
  /\ status' = "ignored"
  /\ UNCHANGED <<state, parent, children, ctx, stack, count>>

\* nr_txn_end of a transaction that is kept: the root segment is ended.
EndTxn ==
  /\ status = "recording"
  /\ status' = "complete"
  /\ state' = [state EXCEPT ![Root] = "ended"]
  /\ stack' = [stack EXCEPT ![Main] = RemoveTopmost(@, Root)]
  /\ count' = count + 1
  /\ UNCHANGED <<parent, children, ctx>>

\* nr_txn_end of a transaction that was ignored, whose name a rule says to
\* ignore, or whose application is no longer connected.
EndTxnIgnored ==
  /\ status # "complete"
  /\ status' = "complete"
  /\ UNCHANGED <<state, parent, children, ctx, stack, count>>

Next ==
  \/ \E s \in Seg, c \in Context : Start(s, c)
  \/ \E s, p \in Seg, c \in Context : StartUnder(s, p, c)
  \/ \E s, p \in Seg : SetParent(s, p)
  \/ \E s \in Seg : End(s) \/ Discard(s) \/ Deinit(s)
  \/ Ignore
  \/ EndTxn
  \/ EndTxnIgnored

Spec == Init /\ [][Next]_vars

----------------------------------------------------------------------------
\* Every variable has its type.
TypeOK ==
  /\ state \in [Seg -> {"free", "live", "ended", "gone"}]
  /\ parent \in [Seg -> Seg \cup {Nil}]
  /\ children \in [Seg -> [Seg -> Nat]]
  /\ ctx \in [Seg -> Context]
  /\ stack \in [Context -> Seq(Seg)]
  /\ count \in Nat
  /\ status \in {"recording", "ignored", "complete"}

\* The two directions of the tree agree: a segment occurs once among the
\* children of its parent and nowhere else, whatever starts, reparentings and
\* discards came before (nr_segment_children_add, _remove and _reparent).
TreeConsistent ==
  \A p, s \in Seg :
    children[p][s] = IF s \in Present /\ parent[s] = p THEN 1 ELSE 0

\* No sequence of calls of nr_segment_set_parent closes a cycle: every
\* non-empty set of segments has one whose parent is outside the set.
Acyclic ==
  \A S \in SUBSET Present : S # {} => \E s \in S : parent[s] \notin S

\* Every segment in the tree but the root hangs under a segment in the tree;
\* with Acyclic, every segment is reached from the root.
Rooted ==
  \A s \in Present : IF s = Root THEN parent[s] = Nil ELSE parent[s] \in Present

\* A stack holds distinct segments that are started, not ended and of its
\* context: nr_txn_get_current_segment never answers a segment that ended or
\* was discarded, in whatever order segments end.
StackLive ==
  \A c \in Context :
    /\ \A i \in 1..Len(stack[c]) :
         state[stack[c][i]] = "live" /\ ctx[stack[c][i]] = c
    /\ \A i, j \in 1..Len(stack[c]) : i # j => stack[c][i] # stack[c][j]

\* While the transaction records, the root is at the bottom of the main
\* stack, so that a new segment always has a parent.
RootCurrent ==
  status = "recording" => stack[Main] # <<>> /\ stack[Main][1] = Root

\* txn->segment_count, which nr_segment_tree_finalise compares with the trace
\* and span limits, is the number of ended segments in the tree.
CountMatches == count = Cardinality({s \in Seg : state[s] = "ended"})

=============================================================================
