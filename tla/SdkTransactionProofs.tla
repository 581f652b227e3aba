------------------------ MODULE SdkTransactionProofs ------------------------
(***************************************************************************)
(* Proofs about the segments of one transaction. First, for any sequence   *)
(* of calls of the library (module SegmentTree): the segments always form  *)
(* a tree. Then for the public calls that several threads make on the      *)
(* transaction (module SdkTransaction): what the application holds is      *)
(* live, what is freed is freed whole, and, where only custom segments are *)
(* moved, the calls are atomic on that tree. All for any number of         *)
(* threads, segments, contexts and calls.                                  *)
(***************************************************************************)
EXTENDS SdkTransaction, FiniteSetTheorems, TLAPS

\* A leaf is given to Zenon for a second, to the SMT solver, and to both again.
USE ZenonT(1), SMTT(60), ZenonT(60), SMTT(90)

Ended == {s \in Seg : state[s] = "ended"}

\* What one action needs of the states before it: the tree is a tree, the
\* stacks hold live segments only (else a discarded segment could become a
\* parent again) and the ended segments are counted.
IInv ==
  /\ TypeOK
  /\ TreeConsistent
  /\ Acyclic
  /\ Rooted
  /\ StackLive
  /\ RootCurrent
  /\ state[Root] # "free" /\ state[Root] # "gone"
  /\ IsFiniteSet(Ended)
  /\ CountMatches

Distinct(st) == \A i, j \in 1..Len(st) : i # j => st[i] # st[j]

\* nr_stack_remove_topmost leaves a sequence of the other elements.
LEMMA RemoveTopmostLemma ==
  ASSUME NEW S, NEW st \in Seq(S), NEW s, Distinct(st)
  PROVE  /\ RemoveTopmost(st, s) \in Seq(S)
         /\ Distinct(RemoveTopmost(st, s))
         /\ \A i \in 1..Len(RemoveTopmost(st, s)) :
              /\ RemoveTopmost(st, s)[i] # s
              /\ \E j \in 1..Len(st) : RemoveTopmost(st, s)[i] = st[j]
         /\ (st # <<>> /\ st[1] # s) =>
              RemoveTopmost(st, s) # <<>> /\ RemoveTopmost(st, s)[1] = st[1]
<1> DEFINE I == {i \in 1..Len(st) : st[i] = s}
<1>1. CASE I = {}
  BY <1>1 DEF RemoveTopmost
<1>2. CASE I # {}
  <2>1. PICK k \in 1..Len(st) : st[k] = s
    BY <1>2
  <2>2. I = {k}
    BY <2>1 DEF Distinct
  <2>3. (CHOOSE i \in I : \A j \in I : j <= i) = k
    BY <2>1, <2>2
  <2> DEFINE r == [i \in 1..(Len(st) - 1) |-> IF i < k THEN st[i] ELSE st[i + 1]]
  <2>4. RemoveTopmost(st, s) = r
    BY <1>2, <2>3 DEF RemoveTopmost
  <2>5. /\ r \in Seq(S)
        /\ Len(r) = Len(st) - 1
        /\ \A i \in 1..Len(r) : r[i] = IF i < k THEN st[i] ELSE st[i + 1]
    <3>1. Len(st) \in Nat /\ Len(st) > 0 /\ k \in 1..Len(st)
      BY <2>1
    <3>2. \A i \in 1..(Len(st) - 1) : st[i] \in S /\ st[i + 1] \in S
      BY <3>1
    <3> QED BY <3>1, <3>2
  <2> HIDE DEF r
  <2>6. \A i \in 1..Len(r) : \E j \in 1..Len(st) : j # k /\ r[i] = st[j]
    BY <2>1, <2>5
  <2>7. Distinct(r)
    BY <2>1, <2>5 DEF Distinct
  <2>8. \A i \in 1..Len(r) : r[i] # s
    BY <2>1, <2>6 DEF Distinct
  <2>9. st[1] # s => r # <<>> /\ r[1] = st[1]
    <3> SUFFICES ASSUME st[1] # s PROVE r # <<>> /\ r[1] = st[1]
      OBVIOUS
    <3>1. k > 1 /\ 1 \in 1..Len(r)
      BY <2>1, <2>5
    <3> QED BY <2>5, <3>1
  <2> QED BY <2>4, <2>5, <2>6, <2>7, <2>8, <2>9
<1> QED BY <1>1, <1>2

\* nr_txn_begin makes the root and nothing else.
LEMMA InitIInv == Init => IInv
<1> SUFFICES ASSUME Init PROVE IInv
  OBVIOUS
<1>1. TypeOK
  BY SegAssumption DEF Init, TypeOK, NoChildren
<1>2. Present = {Root}
  BY SegAssumption DEF Init, Present
<1>3. TreeConsistent
  BY <1>2, SegAssumption DEF Init, TreeConsistent, NoChildren
<1>4. Acyclic
  BY <1>2, SegAssumption DEF Init, Acyclic
<1>5. Rooted
  BY <1>2, SegAssumption DEF Init, Rooted
<1>6. StackLive
  BY SegAssumption DEF Init, StackLive
<1>7. Ended = {}
  BY DEF Init, Ended
<1>8. IsFiniteSet(Ended) /\ CountMatches
  BY <1>7, FS_EmptySet DEF Init, CountMatches, Ended
<1>9. state[Root] = "live"
  BY SegAssumption DEF Init
<1>10. RootCurrent
  BY SegAssumption DEF Init, RootCurrent
<1> QED BY <1>1, <1>3, <1>4, <1>5, <1>6, <1>8, <1>9, <1>10 DEF IInv

\* A segment that was free starts under a segment of the tree.
LEMMA GrowLemma ==
  ASSUME IInv, NEW s \in Seg, NEW p \in Present, NEW c \in Context,
         state[s] = "free",
         state' = [state EXCEPT ![s] = "live"],
         ctx' = [ctx EXCEPT ![s] = c],
         parent' = [parent EXCEPT ![s] = p],
         children' = AddChild(children, p, s),
         UNCHANGED <<count, status>>
  PROVE  /\ state' \in [Seg -> {"free", "live", "ended", "gone"}]
         /\ parent' \in [Seg -> Seg \cup {Nil}]
         /\ children' \in [Seg -> [Seg -> Nat]]
         /\ ctx' \in [Seg -> Context]
         /\ TreeConsistent' /\ Acyclic' /\ Rooted'
         /\ state'[Root] # "free" /\ state'[Root] # "gone"
         /\ IsFiniteSet(Ended') /\ CountMatches'
<1>1. p \in Seg /\ p # s /\ s \notin Present /\ p # Nil
  BY SegAssumption DEF Present
<1>2. Present' = Present \cup {s}
  BY DEF Present, IInv, TypeOK
<1>3. /\ state' \in [Seg -> {"free", "live", "ended", "gone"}]
      /\ parent' \in [Seg -> Seg \cup {Nil}]
      /\ ctx' \in [Seg -> Context]
  BY <1>1 DEF IInv, TypeOK
<1>4. /\ children' \in [Seg -> [Seg -> Nat]]
      /\ \A q, x \in Seg : children'[q][x] =
           IF q = p /\ x = s THEN children[q][x] + 1 ELSE children[q][x]
  <2>1. children \in [Seg -> [Seg -> Nat]]
    BY DEF IInv, TypeOK
  <2>2. children' = AddChild(children, p, s)
    OBVIOUS
  <2>3. /\ AddChild(children, p, s) \in [Seg -> [Seg -> Nat]]
        /\ \A q, x \in Seg : AddChild(children, p, s)[q][x] =
             IF q = p /\ x = s THEN children[q][x] + 1 ELSE children[q][x]
    BY <1>1, <2>1 DEF AddChild
  <2> QED BY <2>2, <2>3
<1>5. parent'[s] = p /\ \A x \in Seg : x # s => parent'[x] = parent[x]
  BY DEF IInv, TypeOK
<1>6. TreeConsistent'
  <2> SUFFICES ASSUME NEW q \in Seg, NEW x \in Seg
               PROVE  children'[q][x] =
                        IF x \in Present' /\ parent'[x] = q THEN 1 ELSE 0
    BY DEF TreeConsistent
  <2>1. children[q][x] = IF x \in Present /\ parent[x] = q THEN 1 ELSE 0
    BY DEF IInv, TreeConsistent
  <2>2. CASE x = s
    BY <2>1, <2>2, <1>1, <1>2, <1>4, <1>5
  <2>3. CASE x # s
    BY <2>1, <2>3, <1>2, <1>4, <1>5
  <2> QED BY <2>2, <2>3
<1>7. \A x \in Present : parent[x] # s
  BY <1>1, SegAssumption DEF IInv, Rooted
<1>8. Acyclic'
  <2> SUFFICES ASSUME NEW T \in SUBSET Present', T # {}
               PROVE  \E x \in T : parent'[x] \notin T
    BY DEF Acyclic
  <2> DEFINE U == T \ {s}
  <2>1. CASE U = {}
    BY <2>1, <1>1, <1>5
  <2>2. CASE U # {}
    <3>1. U \in SUBSET Present
      BY <1>2
    <3>2. PICK x \in U : parent[x] \notin U
      BY <2>2, <3>1 DEF IInv, Acyclic
    <3>3. x \in Present /\ x \in Seg /\ x # s
      BY <3>1 DEF Present
    <3>4. parent'[x] \notin T
      BY <3>2, <3>3, <1>5, <1>7
    <3> QED BY <3>4
  <2> QED BY <2>1, <2>2
<1>9. Rooted'
  <2>1. s # Root
    BY DEF IInv
  <2> QED BY <2>1, <1>1, <1>2, <1>5 DEF IInv, Rooted, Present
<1>10. Ended' = Ended
  BY DEF Ended, IInv, TypeOK
<1>11. state'[Root] # "free" /\ state'[Root] # "gone"
  BY SegAssumption DEF IInv, TypeOK
<1>12. IsFiniteSet(Ended') /\ CountMatches'
  BY <1>10 DEF IInv, CountMatches, Ended
<1> QED BY <1>3, <1>4, <1>6, <1>8, <1>9, <1>11, <1>12

\* nr_segment_start keeps the tree when the parent is the current segment.
LEMMA StartIInv ==
  ASSUME IInv, NEW s \in Seg, NEW c \in Context, Start(s, c)
  PROVE  IInv'
<1> DEFINE p == CurrentSegment(c)
<1>1. \A d \in Context : stack[d] \in Seq(Seg)
  BY DEF IInv, TypeOK
<1>2. Top(stack[Main]) # Nil
  <2>1. stack[Main] # <<>> /\ stack[Main] \in Seq(Seg)
    BY <1>1, SegAssumption DEF Start, IInv, RootCurrent
  <2>2. stack[Main][Len(stack[Main])] \in Seg
    BY <2>1
  <2> QED BY <2>1, <2>2, SegAssumption DEF Top
<1>3. \A d \in Context : Top(stack[d]) # Nil => Top(stack[d]) \in Present
  <2> SUFFICES ASSUME NEW d \in Context, Top(stack[d]) # Nil
               PROVE  Top(stack[d]) \in Present
    OBVIOUS
  <2>1. stack[d] # <<>> /\ stack[d] \in Seq(Seg)
    BY <1>1 DEF Top
  <2>2. Len(stack[d]) \in 1..Len(stack[d])
    BY <2>1
  <2>3. Top(stack[d]) = stack[d][Len(stack[d])]
    BY <2>1 DEF Top
  <2>4. Top(stack[d]) \in Seg /\ state[Top(stack[d])] = "live"
    BY <2>1, <2>2, <2>3 DEF IInv, StackLive
  <2> QED BY <2>4 DEF Present
<1>4. p \in Present /\ p # Nil
  BY <1>2, <1>3, SegAssumption DEF CurrentSegment
<1> HIDE DEF p
<1>5. /\ state[s] = "free" /\ state' = [state EXCEPT ![s] = "live"]
      /\ ctx' = [ctx EXCEPT ![s] = c]
      /\ parent' = [parent EXCEPT ![s] = p]
      /\ children' = AddChild(children, p, s)
      /\ stack' = [stack EXCEPT ![c] = Append(@, s)]
      /\ UNCHANGED <<count, status>>
  BY <1>4 DEF Start, p
<1>6. stack' \in [Context -> Seq(Seg)]
  BY <1>1, <1>5 DEF IInv, TypeOK
<1>7. \A d \in Context : \A i \in 1..Len(stack[d]) : stack[d][i] \in Seg /\ stack[d][i] # s
  BY <1>1, <1>5 DEF IInv, StackLive
<1>8. StackLive'
  <2> SUFFICES ASSUME NEW d \in Context
               PROVE  /\ \A i \in 1..Len(stack'[d]) :
                           state'[stack'[d][i]] = "live" /\ ctx'[stack'[d][i]] = d
                      /\ \A i, j \in 1..Len(stack'[d]) :
                           i # j => stack'[d][i] # stack'[d][j]
    BY DEF StackLive
  <2>1. \A i \in 1..Len(stack[d]) :
          state'[stack[d][i]] = "live" /\ ctx'[stack[d][i]] = d
    <3> SUFFICES ASSUME NEW i \in 1..Len(stack[d])
                 PROVE  state'[stack[d][i]] = "live" /\ ctx'[stack[d][i]] = d
      OBVIOUS
    <3>1. state[stack[d][i]] = "live" /\ ctx[stack[d][i]] = d
      BY DEF IInv, StackLive
    <3>2. stack[d][i] \in Seg /\ stack[d][i] # s
      BY <1>7
    <3> QED BY <1>5, <3>1, <3>2 DEF IInv, TypeOK
  <2>2. state'[s] = "live" /\ ctx'[s] = c
    BY <1>5 DEF IInv, TypeOK
  <2>3. CASE d # c
    BY <2>1, <2>3, <1>5 DEF IInv, StackLive, TypeOK
  <2>4. CASE d = c
    <3>1. stack'[d] = Append(stack[d], s)
      BY <2>4, <1>5 DEF IInv, TypeOK
    <3>2. /\ Len(stack'[d]) = Len(stack[d]) + 1
          /\ stack'[d][Len(stack[d]) + 1] = s
          /\ \A i \in 1..Len(stack[d]) : stack'[d][i] = stack[d][i]
      BY <3>1, <1>1
    <3>3. Len(stack[d]) \in Nat
      BY <1>1
    <3>4. \A i \in 1..Len(stack'[d]) : i \in 1..Len(stack[d]) \/ i = Len(stack[d]) + 1
      BY <3>2, <3>3
    <3>5. \A i, j \in 1..Len(stack[d]) : i # j => stack[d][i] # stack[d][j]
      BY DEF IInv, StackLive
    <3>6. \A i \in 1..Len(stack'[d]) :
             state'[stack'[d][i]] = "live" /\ ctx'[stack'[d][i]] = d
      BY <3>2, <3>4, <2>1, <2>2, <2>4
    <3>7. \A i, j \in 1..Len(stack'[d]) : i # j => stack'[d][i] # stack'[d][j]
      BY <3>2, <3>4, <3>5, <1>7
    <3> QED BY <3>6, <3>7
  <2> QED BY <2>3, <2>4
<1>9. RootCurrent'
  <2>1. stack[Main] \in Seq(Seg) /\ stack[Main] # <<>> /\ stack[Main][1] = Root
    BY <1>1, SegAssumption DEF Start, IInv, RootCurrent
  <2>2. CASE c = Main
    <3>1. stack'[Main] = Append(stack[Main], s)
      BY <2>2, <1>5 DEF IInv, TypeOK
    <3>2. stack'[Main] # <<>> /\ stack'[Main][1] = stack[Main][1]
      BY <2>1, <3>1
    <3> QED BY <2>1, <3>2 DEF RootCurrent
  <2>3. CASE c # Main
    BY <2>1, <2>3, <1>5, SegAssumption DEF RootCurrent, IInv, TypeOK
  <2> QED BY <2>2, <2>3
<1>10. /\ state' \in [Seg -> {"free", "live", "ended", "gone"}]
       /\ parent' \in [Seg -> Seg \cup {Nil}]
       /\ children' \in [Seg -> [Seg -> Nat]]
       /\ ctx' \in [Seg -> Context]
       /\ TreeConsistent' /\ Acyclic' /\ Rooted'
       /\ state'[Root] # "free" /\ state'[Root] # "gone"
       /\ IsFiniteSet(Ended') /\ CountMatches'
  BY <1>4, <1>5, GrowLemma
<1>11. TypeOK'
  BY <1>5, <1>6, <1>10 DEF IInv, TypeOK
<1> QED BY <1>8, <1>9, <1>10, <1>11 DEF IInv

\* The stacks need no attention while the live segments stay as they are.
LEMMA StackKept ==
  ASSUME IInv, stack' = stack,
         \A x \in Seg : state[x] = "live" => state'[x] = "live" /\ ctx'[x] = ctx[x]
  PROVE  StackLive'
<1> SUFFICES ASSUME NEW d \in Context, NEW i \in 1..Len(stack[d])
             PROVE  state'[stack[d][i]] = "live" /\ ctx'[stack[d][i]] = d
  BY DEF IInv, StackLive
<1>1. stack[d][i] \in Seg
  BY DEF IInv, TypeOK
<1>2. state[stack[d][i]] = "live" /\ ctx[stack[d][i]] = d
  BY DEF IInv, StackLive
<1> QED BY <1>1, <1>2

\* So does nr_segment_start when the parent is given.
LEMMA StartUnderIInv ==
  ASSUME IInv, NEW s \in Seg, NEW p \in Seg, NEW c \in Context, StartUnder(s, p, c)
  PROVE  IInv'
<1>1. /\ p \in Present
      /\ state[s] = "free" /\ state' = [state EXCEPT ![s] = "live"]
      /\ ctx' = [ctx EXCEPT ![s] = c]
      /\ parent' = [parent EXCEPT ![s] = p]
      /\ children' = AddChild(children, p, s)
      /\ UNCHANGED <<stack, count, status>>
  BY DEF StartUnder
<1>2. /\ state' \in [Seg -> {"free", "live", "ended", "gone"}]
      /\ parent' \in [Seg -> Seg \cup {Nil}]
      /\ children' \in [Seg -> [Seg -> Nat]]
      /\ ctx' \in [Seg -> Context]
      /\ TreeConsistent' /\ Acyclic' /\ Rooted'
      /\ state'[Root] # "free" /\ state'[Root] # "gone"
      /\ IsFiniteSet(Ended') /\ CountMatches'
  BY <1>1, GrowLemma
<1>3. \A x \in Seg : state[x] = "live" => state'[x] = "live" /\ ctx'[x] = ctx[x]
  BY <1>1 DEF IInv, TypeOK
<1>4. StackLive'
  BY <1>1, <1>3, StackKept
<1>5. TypeOK' /\ RootCurrent'
  BY <1>1, <1>2 DEF IInv, TypeOK, RootCurrent
<1> QED BY <1>2, <1>4, <1>5 DEF IInv

\* A segment moves under p only if it is not one of p's ancestors: the
\* segments from p upwards are a closed set without s, and a cycle would
\* have to stay inside it.
LEMMA SetParentIInv ==
  ASSUME IInv, NEW s \in Seg, NEW p \in Seg, SetParent(s, p)
  PROVE  IInv'
<1>1. /\ s \in Present /\ p \in Present /\ parent[s] # p
      /\ parent' = [parent EXCEPT ![s] = p]
      /\ UNCHANGED <<state, ctx, stack, count, status>>
  BY DEF SetParent
<1>2. Present' = Present /\ Ended' = Ended
  BY <1>1 DEF Present, Ended
<1>3. PICK S \in SUBSET Seg :
        /\ p \in S /\ s \notin S
        /\ \A x \in S : parent[x] \in S \cup {Nil}
  BY DEF SetParent, IsAncestorOrSelf
<1>4. \A x \in Seg : parent'[x] = IF x = s THEN p ELSE parent[x]
  BY <1>1 DEF IInv, TypeOK
<1>5. Acyclic'
  <2> SUFFICES ASSUME NEW T \in SUBSET Present, T # {}
               PROVE  \E x \in T : parent'[x] \notin T
    BY <1>2 DEF Acyclic
  <2>1. \A x \in T : x \in Seg
    BY DEF Present
  <2>2. CASE s \in T /\ p \notin T
    BY <2>1, <2>2, <1>4
  <2>3. CASE s \notin T
    <3>1. PICK x \in T : parent[x] \notin T
      BY DEF IInv, Acyclic
    <3> QED BY <2>1, <2>3, <3>1, <1>4
  <2>4. CASE s \in T /\ p \in T
    <3>1. T \cap S \in SUBSET Present /\ T \cap S # {}
      BY <2>4, <1>3
    <3>2. PICK x \in T \cap S : parent[x] \notin T \cap S
      BY <3>1 DEF IInv, Acyclic
    <3>3. x \in Seg /\ x # s /\ parent'[x] = parent[x]
      BY <2>1, <1>3, <1>4
    <3>4. parent[x] \in S \cup {Nil}
      BY <1>3
    <3>5. Nil \notin T
      BY <2>1, SegAssumption
    <3> QED BY <3>2, <3>3, <3>4, <3>5
  <2> QED BY <2>2, <2>3, <2>4
<1>6. s # Root
  <2> SUFFICES ASSUME s = Root PROVE FALSE
    OBVIOUS
  <2> DEFINE T == S \cap Present
  <2>1. T \in SUBSET Present /\ T # {}
    BY <1>1, <1>3
  <2>2. PICK x \in T : parent[x] \notin T
    BY <2>1 DEF IInv, Acyclic
  <2>3. x # Root /\ x \in Present /\ parent[x] \in S \cup {Nil}
    BY <1>3
  <2>4. parent[x] \in Present
    BY <2>3 DEF IInv, Rooted
  <2> QED BY <2>2, <2>3, <2>4, SegAssumption DEF Present
<1>7. Rooted'
  BY <1>1, <1>2, <1>4, <1>6 DEF IInv, Rooted, Present
<1> DEFINE old == parent[s]
           ch == RemoveChild(children, old, s)
<1>8. old \in Seg /\ old # Nil
  BY <1>1, <1>6, SegAssumption DEF IInv, Rooted, Present
<1>9. children' = AddChild(ch, p, s)
  BY <1>8 DEF SetParent
<1>10. /\ ch \in [Seg -> [Seg -> Nat]]
       /\ \A q, x \in Seg : ch[q][x] =
            IF q = old /\ x = s /\ children[q][x] > 0
              THEN children[q][x] - 1 ELSE children[q][x]
  <2>1. children \in [Seg -> [Seg -> Nat]]
    BY DEF IInv, TypeOK
  <2> HIDE DEF old
  <2> QED BY <1>8, <2>1 DEF RemoveChild
<1> HIDE DEF ch
<1>11. /\ children' \in [Seg -> [Seg -> Nat]]
       /\ \A q, x \in Seg : children'[q][x] =
            IF q = p /\ x = s THEN ch[q][x] + 1 ELSE ch[q][x]
  BY <1>9, <1>10 DEF AddChild
<1>12. TreeConsistent'
  <2> SUFFICES ASSUME NEW q \in Seg, NEW x \in Seg
               PROVE  children'[q][x] =
                        IF x \in Present /\ parent'[x] = q THEN 1 ELSE 0
    BY <1>2 DEF TreeConsistent
  <2>1. children[q][x] = IF x \in Present /\ parent[x] = q THEN 1 ELSE 0
    BY DEF IInv, TreeConsistent
  <2>2. CASE x = s
    BY <2>1, <2>2, <1>1, <1>4, <1>10, <1>11
  <2>3. CASE x # s
    BY <2>1, <2>3, <1>4, <1>10, <1>11
  <2> QED BY <2>2, <2>3
<1>13. TypeOK' /\ RootCurrent'
  BY <1>1, <1>11 DEF IInv, TypeOK, RootCurrent
<1>14. StackLive'
  BY <1>1, StackKept
<1>15. IsFiniteSet(Ended') /\ CountMatches'
  BY <1>1, <1>2 DEF IInv, CountMatches, Ended
<1>16. state'[Root] # "free" /\ state'[Root] # "gone"
  BY <1>1 DEF IInv
<1> QED BY <1>5, <1>7, <1>12, <1>13, <1>14, <1>15, <1>16 DEF IInv

\* nr_segment_end takes the segment off its stack and counts it.
LEMMA EndLemma ==
  ASSUME IInv, NEW s \in Seg, state[s] = "live",
         state' = [state EXCEPT ![s] = "ended"],
         stack' = [stack EXCEPT ![ctx[s]] = RemoveTopmost(@, s)],
         count' = count + 1,
         UNCHANGED <<parent, children, ctx>>,
         status' \in {"recording", "ignored", "complete"},
         status' = "recording" => status = "recording" /\ s # Root
  PROVE  IInv'
<1> DEFINE c == ctx[s]
           r == RemoveTopmost(stack[c], s)
<1>1. c \in Context /\ stack \in [Context -> Seq(Seg)] /\ stack[c] \in Seq(Seg)
  BY DEF IInv, TypeOK
<1>2. Distinct(stack[c])
  BY <1>1 DEF IInv, StackLive, Distinct
<1>3. /\ r \in Seq(Seg) /\ Distinct(r)
      /\ \A i \in 1..Len(r) : r[i] # s /\ \E j \in 1..Len(stack[c]) : r[i] = stack[c][j]
      /\ (stack[c] # <<>> /\ stack[c][1] # s) => r # <<>> /\ r[1] = stack[c][1]
  BY <1>1, <1>2, RemoveTopmostLemma
<1>4. stack' = [stack EXCEPT ![c] = r]
  OBVIOUS
<1> HIDE DEF r
<1>5. \A d \in Context : stack'[d] = IF d = c THEN r ELSE stack[d]
  BY <1>1, <1>4
<1>6. stack' \in [Context -> Seq(Seg)]
  BY <1>1, <1>3, <1>4
<1>7. \A d \in Context : \A i \in 1..Len(stack[d]) :
        stack[d][i] \in Seg /\ state[stack[d][i]] = "live" /\ ctx[stack[d][i]] = d
  <2>1. \A d \in Context : stack[d] \in Seq(Seg)
    BY <1>1
  <2> QED BY <2>1 DEF IInv, StackLive
<1>8. \A x \in Seg : state'[x] = IF x = s THEN "ended" ELSE state[x]
  BY DEF IInv, TypeOK
<1> HIDE DEF c
<1>9. StackLive'
  <2> SUFFICES ASSUME NEW d \in Context
               PROVE  /\ \A i \in 1..Len(stack'[d]) :
                           state'[stack'[d][i]] = "live" /\ ctx'[stack'[d][i]] = d
                      /\ \A i, j \in 1..Len(stack'[d]) :
                           i # j => stack'[d][i] # stack'[d][j]
    BY DEF StackLive
  <2>1. CASE d = c
    <3>1. stack'[d] = r
      BY <1>5, <2>1
    <3>2. \A i \in 1..Len(r) : state'[r[i]] = "live" /\ ctx'[r[i]] = d
      <4> SUFFICES ASSUME NEW i \in 1..Len(r)
                   PROVE  state'[r[i]] = "live" /\ ctx'[r[i]] = d
        OBVIOUS
      <4>1. PICK j \in 1..Len(stack[c]) : r[i] = stack[c][j]
        BY <1>3
      <4> QED BY <4>1, <1>1, <1>3, <1>7, <1>8, <2>1
    <3> QED BY <3>1, <3>2, <1>3 DEF Distinct
  <2>2. CASE d # c
    <3>1. stack'[d] = stack[d]
      BY <1>5, <2>2
    <3>2. \A i \in 1..Len(stack[d]) : stack[d][i] # s
      BY <1>7, <2>2 DEF c
    <3> QED BY <3>1, <3>2, <1>7, <1>8 DEF IInv, StackLive
  <2> QED BY <2>1, <2>2
<1>10. RootCurrent'
  <2> SUFFICES ASSUME status' = "recording"
               PROVE  stack'[Main] # <<>> /\ stack'[Main][1] = Root
    BY DEF RootCurrent
  <2>1. stack[Main] # <<>> /\ stack[Main][1] = Root /\ s # Root
    BY DEF IInv, RootCurrent
  <2> QED BY <2>1, <1>3, <1>5, SegAssumption
<1>11. Ended' = Ended \cup {s} /\ s \notin Ended
  BY <1>8 DEF Ended
<1>12. IsFiniteSet(Ended') /\ Cardinality(Ended') = Cardinality(Ended) + 1
  BY <1>11, FS_AddElement DEF IInv
<1>13. CountMatches'
  BY <1>12 DEF IInv, CountMatches, Ended
<1>14. Present' = Present
  BY <1>8 DEF Present
<1>15. TreeConsistent' /\ Acyclic' /\ Rooted'
  BY <1>14 DEF IInv, TreeConsistent, Acyclic, Rooted
<1>16. TypeOK'
  BY <1>6 DEF IInv, TypeOK
<1>17. state'[Root] # "free" /\ state'[Root] # "gone"
  BY <1>8, SegAssumption DEF IInv
<1> QED BY <1>9, <1>10, <1>12, <1>13, <1>15, <1>16, <1>17 DEF IInv

\* A segment leaves the tree and its children go to its parent. A cycle
\* through the new edges would, with the segment added, have been one before.
LEMMA UnhookLemma ==
  ASSUME IInv, NEW s \in Seg, state[s] = "ended", Unhook(s),
         NEW v \in {"free", "gone"}, state' = [state EXCEPT ![s] = v],
         ctx' \in [Seg -> Context], \A x \in Seg : x # s => ctx'[x] = ctx[x],
         UNCHANGED <<stack, status>>
  PROVE  IInv'
<1> DEFINE p == parent[s]
<1>1. s \in Present /\ p # Nil
  BY DEF Present, Unhook
<1>2. s # Root /\ p \in Present /\ p \in Seg
  BY <1>1 DEF IInv, Rooted, Present
<1>3. p # s
  <2>1. {s} \in SUBSET Present /\ {s} # {}
    BY <1>1
  <2> QED BY <2>1 DEF IInv, Acyclic
<1>4. \A x \in Seg : state'[x] = IF x = s THEN v ELSE state[x]
  BY DEF IInv, TypeOK
<1>5. Present' = Present \ {s}
  BY <1>4 DEF Present
<1>6. /\ children \in [Seg -> [Seg -> Nat]] /\ parent \in [Seg -> Seg \cup {Nil}]
      /\ \A q, x \in Seg :
           children[q][x] = IF x \in Present /\ parent[x] = q THEN 1 ELSE 0
  BY DEF IInv, TypeOK, TreeConsistent
<1>7. /\ parent' = [Reparented(s, p) EXCEPT ![s] = Nil]
      /\ children' = [RemoveChild(children, p, s) EXCEPT
                        ![p] = [x \in Seg |-> @[x] + children[s][x]],
                        ![s] = NoChildren]
      /\ count' = count - 1
  BY DEF Unhook
<1> HIDE DEF p
<1>8. /\ parent' \in [Seg -> Seg \cup {Nil}]
      /\ \A x \in Seg : parent'[x] = IF x = s THEN Nil
                                     ELSE IF children[s][x] > 0 THEN p ELSE parent[x]
  BY <1>2, <1>6, <1>7 DEF Reparented
<1>9. \A x \in Seg : children[s][x] > 0 <=> x \in Present /\ parent[x] = s
  BY <1>6
<1>10. \A x \in Present : x # s => parent'[x] = IF parent[x] = s THEN p ELSE parent[x]
  BY <1>8, <1>9 DEF Present
<1> DEFINE rc == RemoveChild(children, p, s)
           np == [x \in Seg |-> rc[p][x] + children[s][x]]
<1>11. /\ rc \in [Seg -> [Seg -> Nat]]
       /\ \A q, x \in Seg : rc[q][x] =
            IF q = p /\ x = s /\ children[q][x] > 0
              THEN children[q][x] - 1 ELSE children[q][x]
  BY <1>2, <1>6 DEF RemoveChild
<1> HIDE DEF rc
<1>12. np \in [Seg -> Nat] /\ \A x \in Seg : np[x] = rc[p][x] + children[s][x]
  BY <1>2, <1>6, <1>11
<1>13. children' = [[rc EXCEPT ![p] = np] EXCEPT ![s] = NoChildren]
  BY <1>2, <1>7, <1>11 DEF rc
<1> HIDE DEF np
<1>14. /\ children' \in [Seg -> [Seg -> Nat]]
       /\ \A q, x \in Seg :
            children'[q][x] = IF q = s THEN 0
                              ELSE IF q = p THEN rc[p][x] + children[s][x]
                              ELSE rc[q][x]
  BY <1>2, <1>3, <1>11, <1>12, <1>13 DEF NoChildren
<1>15. TreeConsistent'
  <2> SUFFICES ASSUME NEW q \in Seg, NEW x \in Seg
               PROVE  children'[q][x] =
                        IF x \in Present' /\ parent'[x] = q THEN 1 ELSE 0
    BY DEF TreeConsistent
  <2>1. CASE x = s
    BY <2>1, <1>1, <1>2, <1>3, <1>5, <1>6, <1>11, <1>14 DEF p
  <2>2. CASE x # s /\ x \in Present /\ parent[x] = s
    BY <2>2, <1>2, <1>3, <1>5, <1>6, <1>10, <1>11, <1>14
  <2>3. CASE x # s /\ x \in Present /\ parent[x] # s
    BY <2>3, <1>2, <1>3, <1>5, <1>6, <1>10, <1>11, <1>14
  <2>4. CASE x # s /\ x \notin Present
    BY <2>4, <1>2, <1>3, <1>5, <1>6, <1>11, <1>14
  <2> QED BY <2>1, <2>2, <2>3, <2>4
<1>16. Acyclic'
  <2> SUFFICES ASSUME NEW T \in SUBSET Present', T # {}
               PROVE  \E x \in T : parent'[x] \notin T
    BY DEF Acyclic
  <2>1. T \in SUBSET Present /\ s \notin T
    BY <1>5
  <2>2. CASE \E x \in T : parent[x] = s
    <3>1. PICK x \in T : parent[x] = s
      BY <2>2
    <3>2. T \cup {s} \in SUBSET Present /\ T \cup {s} # {}
      BY <2>1, <1>1
    <3>3. PICK y \in T \cup {s} : parent[y] \notin T \cup {s}
      BY <3>2 DEF IInv, Acyclic
    <3>4. CASE y = s
      <4>1. parent'[x] = p /\ p \notin T
        BY <3>1, <3>3, <3>4, <2>1, <1>10 DEF p
      <4> QED BY <4>1
    <3>5. CASE y # s
      <4>1. y \in T /\ parent'[y] = parent[y] /\ parent[y] \notin T
        BY <3>3, <3>5, <2>1, <1>10
      <4> QED BY <4>1
    <3> QED BY <3>4, <3>5
  <2>3. CASE \A x \in T : parent[x] # s
    <3>1. PICK y \in T : parent[y] \notin T
      BY <2>1 DEF IInv, Acyclic
    <3>2. parent'[y] = parent[y]
      BY <2>1, <2>3, <1>10
    <3> QED BY <3>1, <3>2
  <2> QED BY <2>2, <2>3
<1>17. Rooted'
  <2> SUFFICES ASSUME NEW x \in Present, x # s
               PROVE  IF x = Root THEN parent'[x] = Nil ELSE parent'[x] \in Present \ {s}
    BY <1>5 DEF Rooted
  <2>1. IF x = Root THEN parent[x] = Nil ELSE parent[x] \in Present
    BY DEF IInv, Rooted
  <2> QED BY <2>1, <1>2, <1>3, <1>10, SegAssumption
<1>18. s \in Ended /\ Ended' = Ended \ {s}
  BY <1>4 DEF Ended
<1>19. IsFiniteSet(Ended') /\ Cardinality(Ended') = Cardinality(Ended) - 1
  BY <1>18, FS_RemoveElement DEF IInv
<1>20. CountMatches'
  BY <1>7, <1>19 DEF IInv, CountMatches, Ended
<1>21. count' \in Nat
  BY <1>19, <1>20, FS_CardinalityType DEF CountMatches, Ended
<1>22. TypeOK'
  BY <1>8, <1>14, <1>21 DEF IInv, TypeOK
<1>23. StackLive'
  <2>1. \A x \in Seg : state[x] = "live" => state'[x] = "live" /\ ctx'[x] = ctx[x]
    BY <1>4
  <2> QED BY <2>1, StackKept
<1>24. RootCurrent' /\ state'[Root] # "free" /\ state'[Root] # "gone"
  BY <1>2, <1>4, SegAssumption DEF IInv, RootCurrent
<1> QED BY <1>15, <1>16, <1>17, <1>19, <1>20, <1>22, <1>23, <1>24 DEF IInv

\* So does every operation on segments.
LEMMA NextIInv == IInv /\ [Next]_vars => IInv'
<1> SUFFICES ASSUME IInv, [Next]_vars PROVE IInv'
  OBVIOUS
<1>1. ASSUME NEW s \in Seg, NEW c \in Context, Start(s, c) PROVE IInv'
  BY <1>1, StartIInv
<1>2. ASSUME NEW s \in Seg, NEW p \in Seg, NEW c \in Context, StartUnder(s, p, c)
      PROVE  IInv'
  BY <1>2, StartUnderIInv
<1>3. ASSUME NEW s \in Seg, NEW p \in Seg, SetParent(s, p) PROVE IInv'
  BY <1>3, SetParentIInv
<1>4. ASSUME NEW s \in Seg, End(s) PROVE IInv'
  <2>1. status' \in {"recording", "ignored", "complete"} /\ status' = status
    BY <1>4 DEF End, IInv, TypeOK
  <2> QED BY <1>4, <2>1, EndLemma DEF End
<1>5. ASSUME NEW s \in Seg, Discard(s) PROVE IInv'
  <2>1. ctx' \in [Seg -> Context] /\ \A x \in Seg : x # s => ctx'[x] = ctx[x]
    BY <1>5 DEF Discard, IInv, TypeOK
  <2> QED BY <1>5, <2>1, UnhookLemma DEF Discard
<1>6. ASSUME NEW s \in Seg, Deinit(s) PROVE IInv'
  <2>1. ctx' \in [Seg -> Context] /\ \A x \in Seg : x # s => ctx'[x] = ctx[x]
    BY <1>6, SegAssumption DEF Deinit, IInv, TypeOK
  <2> QED BY <1>6, <2>1, UnhookLemma DEF Deinit
<1>7. ASSUME UNCHANGED <<state, parent, children, ctx, stack, count>>,
             status' \in {"ignored", "complete"}
      PROVE  IInv'
  <2>1. TypeOK' /\ RootCurrent' /\ StackLive'
    BY <1>7 DEF IInv, TypeOK, RootCurrent, StackLive
  <2>2. Present' = Present /\ Ended' = Ended
    BY <1>7 DEF Present, Ended
  <2>3. TreeConsistent' /\ Acyclic' /\ Rooted'
    BY <1>7, <2>2 DEF IInv, TreeConsistent, Acyclic, Rooted
  <2>4. IsFiniteSet(Ended') /\ CountMatches'
    BY <1>7, <2>2 DEF IInv, CountMatches, Ended
  <2> QED BY <1>7, <2>1, <2>3, <2>4 DEF IInv
<1>8. ASSUME EndTxn PROVE IInv'
  <2>1. stack[Main] # <<>> /\ stack[Main][1] = Root /\ stack[Main] \in Seq(Seg)
    BY <1>8, SegAssumption DEF EndTxn, IInv, RootCurrent, TypeOK
  <2>2. 1 \in 1..Len(stack[Main])
    BY <2>1
  <2>3. state[Root] = "live" /\ ctx[Root] = Main
    BY <2>1, <2>2, SegAssumption DEF IInv, StackLive
  <2> QED BY <1>8, <2>3, EndLemma, SegAssumption DEF EndTxn
<1>9. ASSUME UNCHANGED vars PROVE IInv'
  <2>1. TypeOK' /\ RootCurrent' /\ StackLive'
    BY <1>9 DEF IInv, TypeOK, RootCurrent, StackLive, vars
  <2>2. Present' = Present /\ Ended' = Ended
    BY <1>9 DEF Present, Ended, vars
  <2>3. TreeConsistent' /\ Acyclic' /\ Rooted'
    BY <1>9, <2>2 DEF IInv, TreeConsistent, Acyclic, Rooted, vars
  <2>4. IsFiniteSet(Ended') /\ CountMatches'
    BY <1>9, <2>2 DEF IInv, CountMatches, Ended, vars
  <2> QED BY <1>9, <2>1, <2>3, <2>4 DEF IInv, vars
<1>10. Ignore => IInv'
  BY <1>7 DEF Ignore
<1>11. EndTxnIgnored => IInv'
  BY <1>7 DEF EndTxnIgnored
<1> QED BY <1>1, <1>2, <1>3, <1>4, <1>5, <1>6, <1>8, <1>9, <1>10, <1>11 DEF Next

\* The tree is consistent after any sequence of operations.
LEMMA SpecIInv == Spec => []IInv
  BY InitIInv, NextIInv, PTL DEF Spec

\* For any set of segments and contexts, and any sequence of starts,
\* reparentings, ends, discards and deinits, every segment is once among the
\* children of its parent and nowhere else: nr_segment_destroy_tree frees
\* every segment, and none of them twice.
THEOREM AlwaysTree == Spec => []TreeConsistent
<1>1. IInv => TreeConsistent
  BY DEF IInv
<1> QED BY <1>1, SpecIInv, PTL

\* nr_segment_set_parent's walk along the parents of the new parent keeps the
\* tree free of cycles, so that walk itself and the iteration over the tree
\* end.
THEOREM NeverCyclic == Spec => []Acyclic
<1>1. IInv => Acyclic
  BY DEF IInv
<1> QED BY <1>1, SpecIInv, PTL

\* No segment is cut off from the root: nr_segment_discard hands the children
\* of a discarded segment to its parent.
THEOREM AlwaysRooted == Spec => []Rooted
<1>1. IInv => Rooted
  BY DEF IInv
<1> QED BY <1>1, SpecIInv, PTL

\* In whatever order segments end, nr_txn_get_current_segment answers none
\* that ended or was discarded.
THEOREM CurrentIsLive == Spec => []StackLive
<1>1. IInv => StackLive
  BY DEF IInv
<1> QED BY <1>1, SpecIInv, PTL

\* txn->segment_count is the number of ended segments in the tree.
THEOREM CountIsExact == Spec => []CountMatches
<1>1. IInv => CountMatches
  BY DEF IInv
<1> QED BY <1>1, SpecIInv, PTL

\* Every variable keeps its type; in particular the count of segments does not
\* fall below zero (nr_segment_discard, nr_txn_retire_current_segment).
THEOREM TypeCorrect == Spec => []TypeOK
<1>1. IInv => TypeOK
  BY DEF IInv
<1> QED BY <1>1, SpecIInv, PTL

----------------------------------------------------------------------------
\* The public calls of the threads: what a call is about, and its types.
AnyKind == {"custom", "datastore", "external"}

CallRecord ==
  [op : {"none", "start", "set_parent", "set_timing", "end", "end_other",
         "record", "ignore", "set_name", "end_txn"},
   seg : Seg \cup {Nil}, par : Seg \cup {Nil}, kind : AnyKind]

SdkTypes ==
  /\ state \in [Seg -> {"free", "live", "ended", "gone"}]
  /\ pc \in [Thread -> {"idle", "lock", "body", "apply", "unlock", "tail"}]
  /\ call \in [Thread -> CallRecord]
  /\ wrapper \in [Seg -> {"none", "made", "owned", "freed"}]
  /\ kind \in [Seg -> AnyKind]
  /\ fields \in [Seg -> BOOLEAN]
  /\ txnLock \in [Seg -> BOOLEAN]

Uses(u, s) == s \in {call[u].seg, call[u].par}

Alone(t, s) == \A u \in Thread \ {t} : ~Uses(u, s)

\* A call that starts a segment has it for itself and finds no wrapper until it
\* made one.
StartInv(t) ==
  call[t].op = "start" =>
    /\ call[t].seg \in Seg \ {Root}
    /\ Alone(t, call[t].seg)
    /\ \/ wrapper[call[t].seg] = "none"
       \/ /\ pc[t] \in {"unlock", "tail"}
          /\ wrapper[call[t].seg] = "made"
          /\ state[call[t].seg] = "live"
          /\ kind[call[t].seg] = call[t].kind

\* A call that moves or times a segment uses wrappers the application owns.
MoveInv(t) ==
  call[t].op \in {"set_parent", "set_timing"} =>
    /\ call[t].seg \in Seg
    /\ wrapper[call[t].seg] = "owned"
    /\ kind[call[t].seg] \in Moved
    /\ call[t].op = "set_parent" =>
         \/ call[t].par = Root
         \/ call[t].par \in Seg /\ wrapper[call[t].par] = "owned"

\* A call that ends a segment has its wrapper for itself.
EndInv(t) ==
  call[t].op \in {"end", "end_other"} =>
    /\ call[t].seg \in Seg
    /\ Alone(t, call[t].seg)
    /\ wrapper[call[t].seg] = "owned"

\* The call that ends s is past its body.
Past(s) ==
  \E t \in Thread : /\ call[t].op = "end" /\ call[t].seg = s
                    /\ pc[t] \in {"unlock", "tail"}

\* A wrapper that is owned points to a live segment until the call that ends it
\* has done so, and knows the lock if its segment is a custom one.
SegInv(s) ==
  /\ wrapper[s] = "owned" => state[s] = "live" \/ Past(s)
  /\ wrapper[s] = "owned" /\ kind[s] = "custom" => txnLock[s]
  /\ fields[s] => kind[s] # "custom"
  /\ wrapper[s] = "freed" => ~fields[s]

RootInv == wrapper[Root] = "none" /\ state[Root] \in {"live", "ended"}

UseInv ==
  /\ SdkTypes
  /\ \A t \in Thread : (pc[t] = "idle") <=> (call[t] = NoCall)
  /\ \A t \in Thread : StartInv(t)
  /\ \A t \in Thread : MoveInv(t)
  /\ \A t \in Thread : EndInv(t)
  /\ \A s \in Seg : SegInv(s)
  /\ RootInv

\* The calls that take the lock hold it from their body to nrt_mutex_unlock.
Locking == {"start", "end", "record", "end_txn", "set_parent", "set_timing"}

HoldInv(t) ==
  call[t].op \in Locking /\ pc[t] \in {"body", "apply", "unlock"} => lock = t

\* What nr_segment_set_parent looked at is still so when it changes the tree.
ApplyInv(t) ==
  pc[t] = "apply" =>
    /\ call[t].op = "set_parent"
    /\ parent[call[t].seg] # call[t].par
    /\ ~IsAncestorOrSelf(call[t].seg, call[t].par)

LockInv == \A t \in Thread : HoldInv(t) /\ ApplyInv(t)

\* The transaction completes in the call that ends it, which runs alone.
CompleteInv ==
  /\ \A t, u \in Thread : call[t].op = "end_txn" /\ u # t => pc[u] = "idle"
  /\ status = "complete" =>
       /\ \A t \in Thread : pc[t] = "idle" \/ call[t].op = "end_txn"
       /\ txn = "freed" \/ \E t \in Thread : call[t].op = "end_txn"

----------------------------------------------------------------------------
\* Who uses what

\* The fields of the call of a thread that makes none.
LEMMA NoCallFields ==
  /\ NoCall \in CallRecord
  /\ NoCall.op = "none" /\ NoCall.seg = Nil /\ NoCall.par = Nil
BY DEF NoCall, CallRecord, AnyKind

\* A step of thread t that goes on with its call, moves no wrapper and ends no
\* segment but perhaps the root keeps the invariant.
LEMMA GoesOn ==
  ASSUME UseInv, NEW t \in Thread, NEW l \in {"body", "apply", "unlock", "tail"},
         pc[t] # "idle", pc[t] \in {"unlock", "tail"} => l \in {"unlock", "tail"},
         pc' = [pc EXCEPT ![t] = l],
         UNCHANGED <<call, wrapper, kind, fields, txnLock>>,
         state' = state \/ state' = [state EXCEPT ![Root] = "ended"]
  PROVE  UseInv'
<1>1. SdkTypes /\ SegAssumption
  BY SegAssumption DEF UseInv
<1>2. /\ pc' \in [Thread -> {"idle", "lock", "body", "apply", "unlock", "tail"}]
      /\ pc'[t] = l /\ \A u \in Thread \ {t} : pc'[u] = pc[u]
  BY <1>1 DEF SdkTypes
<1>3. /\ state' \in [Seg -> {"free", "live", "ended", "gone"}]
      /\ \A s \in Seg \ {Root} : state'[s] = state[s]
      /\ state'[Root] \in {"live", "ended"}
  BY <1>1 DEF SdkTypes, UseInv, RootInv
<1>4. SdkTypes'
  BY <1>1, <1>2, <1>3 DEF SdkTypes
<1>5. \A u \in Thread :
        /\ pc[u] = "idle" <=> pc'[u] = "idle"
        /\ pc[u] \in {"unlock", "tail"} => pc'[u] \in {"unlock", "tail"}
  BY <1>2
<1>6. ASSUME NEW u \in Thread
      PROVE  /\ (pc'[u] = "idle") <=> (call'[u] = NoCall)
             /\ StartInv(u)' /\ MoveInv(u)' /\ EndInv(u)'
  <2>1. (pc'[u] = "idle") <=> (call'[u] = NoCall)
    BY <1>5 DEF UseInv
  <2>2. Alone(u, call[u].seg)' <=> Alone(u, call[u].seg)
    BY DEF Alone, Uses
  <2>3. StartInv(u)'
    BY <1>3, <1>5, <2>2 DEF UseInv, StartInv
  <2>4. MoveInv(u)'
    BY DEF UseInv, MoveInv
  <2>5. EndInv(u)'
    BY <2>2 DEF UseInv, EndInv
  <2>6. QED
    BY <2>1, <2>3, <2>4, <2>5
<1>7. ASSUME NEW s \in Seg
      PROVE  SegInv(s)'
  <2>1. Past(s) => Past(s)'
    BY <1>5 DEF Past
  <2>2. wrapper[s] = "owned" => s # Root
    BY DEF UseInv, RootInv
  <2>3. SegInv(s)
    BY DEF UseInv
  <2>4. QED
    BY <1>3, <2>1, <2>2, <2>3 DEF SegInv
<1>8. RootInv'
  BY <1>3 DEF UseInv, RootInv
<1>9. QED
  BY <1>4, <1>6, <1>7, <1>8 DEF UseInv

\* A new call may be made when no call that starts or ends a segment is under
\* way for one that it uses.
Free(c) ==
  \A u \in Thread : call[u].op \in {"start", "end", "end_other"} =>
                      call[u].seg \notin {c.seg, c.par}

\* What the application promises of the segments it passes.
Promised(c) ==
  /\ c.op = "start" =>
       c.seg \in Seg \ {Root} /\ wrapper[c.seg] = "none" /\ ~Used(c.seg)
  /\ c.op \in {"set_parent", "set_timing"} =>
       /\ c.seg \in Seg /\ wrapper[c.seg] = "owned" /\ kind[c.seg] \in Moved
       /\ c.op = "set_parent" =>
            c.par = Root \/ (c.par \in Seg /\ wrapper[c.par] = "owned")
  /\ c.op \in {"end", "end_other"} =>
       c.seg \in Seg /\ wrapper[c.seg] = "owned" /\ ~Used(c.seg)

\* A call made as promised keeps the invariant.
LEMMA Enters ==
  ASSUME UseInv, NEW t \in Thread, NEW c \in CallRecord, c.op # "none",
         Enter(t, c), Free(c), Promised(c)
  PROVE  UseInv'
<1>1. /\ pc[t] = "idle" /\ call' = [call EXCEPT ![t] = c]
      /\ UNCHANGED <<state, wrapper, kind, fields, txnLock>>
  BY DEF Enter, vars
<1>2. PICK l \in {"lock", "tail", "body"} : pc' = [pc EXCEPT ![t] = l]
  BY DEF Enter
<1>3. /\ SdkTypes'
      /\ call'[t] = c /\ \A u \in Thread \ {t} : call'[u] = call[u]
      /\ pc'[t] = l /\ \A u \in Thread \ {t} : pc'[u] = pc[u]
  BY <1>1, <1>2 DEF UseInv, SdkTypes
<1>4. call[t] = NoCall /\ c # NoCall
  BY <1>1, NoCallFields DEF UseInv
<1>5. ASSUME NEW u \in Thread
      PROVE  /\ (pc'[u] = "idle") <=> (call'[u] = NoCall)
             /\ StartInv(u)' /\ MoveInv(u)' /\ EndInv(u)'
  <2>1. (pc'[u] = "idle") <=> (call'[u] = NoCall)
    BY <1>3, <1>4 DEF UseInv
  <2>2. CASE u = t
    <3>1. ~Used(c.seg) => Alone(t, c.seg)'
      BY <1>3 DEF Used, Alone, Uses
    <3>2. call'[u] = c
      BY <1>3, <2>2
    <3>3. StartInv(u)'
      BY <1>1, <2>2, <3>1, <3>2 DEF StartInv, Promised
    <3>4. MoveInv(u)'
      BY <1>1, <2>2, <3>2 DEF MoveInv, Promised
    <3>5. EndInv(u)'
      BY <1>1, <2>2, <3>1, <3>2 DEF EndInv, Promised
    <3>6. QED
      BY <2>1, <3>3, <3>4, <3>5
  <2>3. CASE u # t
    <3>1. call'[u] = call[u] /\ pc'[u] = pc[u]
      BY <1>3, <2>3
    <3>2. call[u].op \in {"start", "end", "end_other"}
            /\ Alone(u, call[u].seg) => Alone(u, call[u].seg)'
      BY <1>3, <3>1 DEF Free, Alone, Uses
    <3>3. StartInv(u)'
      BY <1>1, <3>1, <3>2 DEF UseInv, StartInv
    <3>4. MoveInv(u)'
      BY <1>1, <3>1 DEF UseInv, MoveInv
    <3>5. EndInv(u)'
      BY <1>1, <3>1, <3>2 DEF UseInv, EndInv
    <3>6. QED
      BY <2>1, <3>3, <3>4, <3>5
  <2>4. QED
    BY <2>2, <2>3
<1>6. ASSUME NEW s \in Seg
      PROVE  SegInv(s)'
  <2>1. Past(s) => Past(s)'
    BY <1>1, <1>3 DEF Past
  <2>2. QED
    BY <1>1, <2>1 DEF UseInv, SegInv
<1>7. RootInv'
  BY <1>1 DEF UseInv, RootInv
<1>8. QED
  BY <1>3, <1>5, <1>6, <1>7 DEF UseInv

\* Every call of the application is made as promised.
LEMMA NewCalls ==
  ASSUME UseInv, NEW t \in Thread, NewCall(t)
  PROVE  UseInv'
<1>0. SegAssumption
  BY SegAssumption
<1>1. ASSUME NEW s \in Seg, NEW k \in AnyKind, CallStart(t, s, k)
      PROVE  UseInv'
  <2> DEFINE c == [NoCall EXCEPT !.op = "start", !.seg = s, !.kind = k]
  <2>1. c \in CallRecord /\ c.op = "start" /\ c.seg = s /\ c.par = Nil
    BY DEF NoCall, CallRecord
  <2>2. /\ Enter(t, c) /\ state[s] = "free"
        /\ wrapper[s] = "none" /\ ~Used(s)
    BY <1>1 DEF CallStart
  <2> HIDE DEF c
  <2>3. s # Root
    BY <2>2 DEF UseInv, RootInv
  <2>4. Free(c)
    BY <1>0, <2>1, <2>2 DEF Free, Used, UseInv, StartInv, EndInv
  <2>5. Promised(c)
    BY <2>1, <2>2, <2>3 DEF Promised
  <2>6. QED
    BY <2>1, <2>2, <2>4, <2>5, Enters
<1>2. ASSUME NEW s \in Seg, NEW p \in Seg, CallSetParent(t, s, p)
      PROVE  UseInv'
  <2> DEFINE c == [NoCall EXCEPT !.op = "set_parent", !.seg = s, !.par = p]
  <2>1. c \in CallRecord /\ c.op = "set_parent" /\ c.seg = s /\ c.par = p
    BY DEF NoCall, CallRecord, AnyKind
  <2>2. /\ Enter(t, c) /\ Usable(s) /\ kind[s] \in Moved
        /\ p = Root \/ Usable(p)
    BY <1>2 DEF CallSetParent
  <2> HIDE DEF c
  <2>3. ASSUME NEW q \in {s, p}, NEW u \in Thread,
               call[u].op \in {"start", "end", "end_other"}
        PROVE  call[u].seg # q
    <3>1. CASE Usable(q)
      BY <2>3, <3>1 DEF Usable, Ending, UseInv, StartInv
    <3>2. CASE q = Root
      BY <2>3, <3>2 DEF UseInv, StartInv, EndInv, RootInv
    <3>3. QED
      BY <2>2, <3>1, <3>2
  <2>4. Free(c)
    BY <2>1, <2>3 DEF Free
  <2>5. Promised(c)
    BY <2>1, <2>2 DEF Promised, Usable
  <2>6. QED
    BY <2>1, <2>2, <2>4, <2>5, Enters
<1>3. ASSUME NEW s \in Seg, CallSetTiming(t, s)
      PROVE  UseInv'
  <2> DEFINE c == [NoCall EXCEPT !.op = "set_timing", !.seg = s]
  <2>1. c \in CallRecord /\ c.op = "set_timing" /\ c.seg = s /\ c.par = Nil
    BY DEF NoCall, CallRecord, AnyKind
  <2>2. Enter(t, c) /\ Usable(s) /\ kind[s] \in Moved
    BY <1>3 DEF CallSetTiming
  <2> HIDE DEF c
  <2>3. Free(c)
    BY <1>0, <2>1, <2>2 DEF Free, Usable, Ending, UseInv, StartInv, EndInv
  <2>4. Promised(c)
    BY <2>1, <2>2 DEF Promised, Usable
  <2>5. QED
    BY <2>1, <2>2, <2>3, <2>4, Enters
<1>4. ASSUME NEW s \in Seg, NEW op \in {"end", "end_other"}, CallEnd(t, s, op)
      PROVE  UseInv'
  <2> DEFINE c == [NoCall EXCEPT !.op = op, !.seg = s]
  <2>1. c \in CallRecord /\ c.op = op /\ c.seg = s /\ c.par = Nil
    BY DEF NoCall, CallRecord, AnyKind
  <2>2. Enter(t, c) /\ wrapper[s] = "owned" /\ ~Used(s)
    BY <1>4 DEF CallEnd
  <2> HIDE DEF c
  <2>3. Free(c)
    BY <1>0, <2>1, <2>2 DEF Free, Used, UseInv, StartInv, EndInv
  <2>4. Promised(c)
    BY <2>1, <2>2 DEF Promised
  <2>5. QED
    BY <2>1, <2>2, <2>3, <2>4, Enters
<1>5. ASSUME NEW op \in {"record", "ignore", "set_name", "end_txn"},
             Enter(t, [NoCall EXCEPT !.op = op])
      PROVE  UseInv'
  <2> DEFINE c == [NoCall EXCEPT !.op = op]
  <2>1. c \in CallRecord /\ c.op = op /\ c.seg = Nil /\ c.par = Nil
    BY DEF NoCall, CallRecord, AnyKind
  <2>2. Enter(t, c)
    BY <1>5
  <2> HIDE DEF c
  <2>3. Free(c)
    BY <1>0, <2>1 DEF Free, UseInv, StartInv, EndInv
  <2>4. Promised(c)
    BY <2>1 DEF Promised
  <2>5. QED
    BY <2>1, <2>2, <2>3, <2>4, Enters
<1>6. QED
  BY <1>1, <1>2, <1>3, <1>4, <1>5
     DEF NewCall, CallStartSegment, CallStartDatastore, CallStartExternal,
         CallOnTxn, CallEndTxn, AnyKind

\* newrelic_segment_create fills the wrapper of a segment no other call uses.
LEMMA MakesSegment ==
  ASSUME UseInv, NEW t \in Thread, NEW k \in AnyKind,
         pc[t] = "body", call[t].op = "start", call[t].kind = k,
         MakeSegment(call[t].seg, k), Goto(t, "unlock")
  PROVE  UseInv'
<1> DEFINE s == call[t].seg
<1>1. /\ s \in Seg \ {Root} /\ Alone(t, s) /\ wrapper[s] = "none"
  BY DEF UseInv, StartInv
<1>2. /\ call' = call /\ txnLock' = txnLock
      /\ pc' = [pc EXCEPT ![t] = "unlock"]
      /\ state' = [state EXCEPT ![s] = "live"]
      /\ wrapper' = [wrapper EXCEPT ![s] = "made"]
      /\ kind' = [kind EXCEPT ![s] = k]
      /\ fields' = [fields EXCEPT ![s] = k # "custom"]
  BY DEF Goto, MakeSegment, Start
<1>3. /\ SdkTypes'
      /\ pc'[t] = "unlock" /\ \A u \in Thread \ {t} : pc'[u] = pc[u]
      /\ state'[s] = "live" /\ wrapper'[s] = "made" /\ kind'[s] = k
      /\ fields'[s] = (k # "custom")
      /\ \A q \in Seg \ {s} : /\ state'[q] = state[q]
                              /\ wrapper'[q] = wrapper[q]
                              /\ kind'[q] = kind[q] /\ fields'[q] = fields[q]
  <2>1. SdkTypes
    BY DEF UseInv
  <2>2. (k # "custom") \in BOOLEAN
    OBVIOUS
  <2>3. /\ pc' \in [Thread -> {"idle", "lock", "body", "apply", "unlock", "tail"}]
        /\ pc'[t] = "unlock" /\ \A u \in Thread \ {t} : pc'[u] = pc[u]
    BY <1>2, <2>1 DEF SdkTypes
  <2>4. /\ state' \in [Seg -> {"free", "live", "ended", "gone"}]
        /\ state'[s] = "live" /\ \A q \in Seg \ {s} : state'[q] = state[q]
    BY <1>1, <1>2, <2>1 DEF SdkTypes
  <2>5. /\ wrapper' \in [Seg -> {"none", "made", "owned", "freed"}]
        /\ wrapper'[s] = "made" /\ \A q \in Seg \ {s} : wrapper'[q] = wrapper[q]
    BY <1>1, <1>2, <2>1 DEF SdkTypes
  <2>6. /\ kind' \in [Seg -> AnyKind]
        /\ kind'[s] = k /\ \A q \in Seg \ {s} : kind'[q] = kind[q]
    BY <1>1, <1>2, <2>1 DEF SdkTypes
  <2>7. /\ fields' \in [Seg -> BOOLEAN]
        /\ fields'[s] = (k # "custom")
        /\ \A q \in Seg \ {s} : fields'[q] = fields[q]
    BY <1>1, <1>2, <2>1, <2>2 DEF SdkTypes
  <2>8. QED
    BY <1>2, <2>1, <2>3, <2>4, <2>5, <2>6, <2>7 DEF SdkTypes
<1> HIDE DEF s
<1>4. ASSUME NEW u \in Thread
      PROVE  /\ (pc'[u] = "idle") <=> (call'[u] = NoCall)
             /\ StartInv(u)' /\ MoveInv(u)' /\ EndInv(u)'
  <2>1. (pc'[u] = "idle") <=> (call'[u] = NoCall)
    BY <1>2, <1>3 DEF UseInv
  <2>2. Alone(u, call[u].seg)' <=> Alone(u, call[u].seg)
    BY <1>2 DEF Alone, Uses
  <2>3. CASE u = t
    <3>1. StartInv(u)'
      BY <1>1, <1>2, <1>3, <2>2, <2>3 DEF StartInv, s
    <3>2. MoveInv(u)' /\ EndInv(u)'
      BY <1>2, <2>3 DEF MoveInv, EndInv
    <3>3. QED
      BY <2>1, <3>1, <3>2
  <2>4. CASE u # t
    <3>1. call[u].seg # s /\ call[u].par # s /\ pc'[u] = pc[u]
      BY <1>1, <1>3, <2>4 DEF Alone, Uses
    <3>2. StartInv(u)'
      BY <1>2, <1>3, <2>2, <3>1 DEF UseInv, StartInv
    <3>3. MoveInv(u)'
      BY <1>2, <1>3, <3>1 DEF UseInv, MoveInv
    <3>4. EndInv(u)'
      BY <1>2, <1>3, <2>2, <3>1 DEF UseInv, EndInv
    <3>5. QED
      BY <2>1, <3>2, <3>3, <3>4
  <2>5. QED
    BY <2>3, <2>4
<1>5. ASSUME NEW q \in Seg
      PROVE  SegInv(q)'
  <2>1. Past(q) => Past(q)'
    BY <1>2, <1>3 DEF Past
  <2>2. CASE q = s
    BY <1>3, <2>2 DEF SegInv
  <2>3. CASE q # s
    BY <1>2, <1>3, <2>1, <2>3 DEF UseInv, SegInv
  <2>4. QED
    BY <2>2, <2>3
<1>6. RootInv'
  BY <1>1, <1>3, SegAssumption DEF UseInv, RootInv
<1>7. QED
  BY <1>3, <1>4, <1>5, <1>6 DEF UseInv

\* nr_segment_end and the strings of the segment, for a wrapper no other call
\* uses.
LEMMA EndsSegment ==
  ASSUME UseInv, NEW t \in Thread, NEW k \in AnyKind, BodyEnd(t, k)
  PROVE  UseInv'
<1> DEFINE s == call[t].seg
<1>1. /\ pc[t] = "body" /\ call[t].op = "end"
      /\ s \in Seg \ {Root} /\ Alone(t, s) /\ wrapper[s] = "owned"
  BY DEF UseInv, EndInv, BodyEnd, End
<1>2. /\ call' = call /\ txnLock' = txnLock /\ wrapper' = wrapper
      /\ kind' = kind
      /\ pc' = [pc EXCEPT ![t] = "unlock"]
      /\ state' = [state EXCEPT ![s] = "ended"]
      /\ fields' = [fields EXCEPT ![s] = FALSE]
  BY DEF BodyEnd, Goto, End
<1>3. /\ SdkTypes'
      /\ pc'[t] = "unlock" /\ \A u \in Thread \ {t} : pc'[u] = pc[u]
      /\ fields'[s] = FALSE
      /\ \A q \in Seg \ {s} : state'[q] = state[q] /\ fields'[q] = fields[q]
  <2>1. SdkTypes
    BY DEF UseInv
  <2>2. /\ pc' \in [Thread -> {"idle", "lock", "body", "apply", "unlock", "tail"}]
        /\ pc'[t] = "unlock" /\ \A u \in Thread \ {t} : pc'[u] = pc[u]
    BY <1>2, <2>1 DEF SdkTypes
  <2>3. /\ state' \in [Seg -> {"free", "live", "ended", "gone"}]
        /\ \A q \in Seg \ {s} : state'[q] = state[q]
    BY <1>1, <1>2, <2>1 DEF SdkTypes
  <2>4. /\ fields' \in [Seg -> BOOLEAN]
        /\ fields'[s] = FALSE /\ \A q \in Seg \ {s} : fields'[q] = fields[q]
    BY <1>1, <1>2, <2>1 DEF SdkTypes
  <2>5. QED
    BY <1>2, <2>1, <2>2, <2>3, <2>4 DEF SdkTypes
<1> HIDE DEF s
<1>4. ASSUME NEW u \in Thread
      PROVE  /\ (pc'[u] = "idle") <=> (call'[u] = NoCall)
             /\ StartInv(u)' /\ MoveInv(u)' /\ EndInv(u)'
  <2>1. (pc'[u] = "idle") <=> (call'[u] = NoCall)
    BY <1>1, <1>2, <1>3 DEF UseInv
  <2>2. Alone(u, call[u].seg)' <=> Alone(u, call[u].seg)
    BY <1>2 DEF Alone, Uses
  <2>3. MoveInv(u)'
    BY <1>2 DEF UseInv, MoveInv
  <2>4. EndInv(u)'
    BY <1>2, <2>2 DEF UseInv, EndInv
  <2>5. StartInv(u)'
    <3>1. CASE u = t
      BY <1>1, <1>2, <3>1 DEF StartInv
    <3>2. CASE u # t
      <4>1. call[u].seg # s /\ pc'[u] = pc[u]
        BY <1>1, <1>3, <3>2 DEF Alone, Uses
      <4>2. QED
        BY <1>2, <1>3, <2>2, <4>1 DEF UseInv, StartInv
    <3>3. QED
      BY <3>1, <3>2
  <2>6. QED
    BY <2>1, <2>3, <2>4, <2>5
<1>5. ASSUME NEW q \in Seg
      PROVE  SegInv(q)'
  <2>1. Past(q) => Past(q)'
    BY <1>1, <1>2, <1>3 DEF Past
  <2>2. CASE q = s
    <3>1. Past(q)'
      BY <1>1, <1>2, <1>3, <2>2 DEF Past, s
    <3>2. QED
      BY <1>2, <1>3, <2>2, <3>1 DEF UseInv, SegInv
  <2>3. CASE q # s
    BY <1>2, <1>3, <2>1, <2>3 DEF UseInv, SegInv
  <2>4. QED
    BY <2>2, <2>3
<1>6. RootInv'
  BY <1>1, <1>2, <1>3, SegAssumption DEF UseInv, RootInv
<1>7. QED
  BY <1>3, <1>4, <1>5, <1>6 DEF UseInv

\* A call that returns stops using its segments; what the other threads rely on
\* stays if the wrappers they use do.
LEMMA Returns ==
  ASSUME UseInv, NEW t \in Thread, Return(t), SdkTypes', NEW d,
         d \in Seg => Alone(t, d),
         \A q \in Seg \ {d} : wrapper'[q] = wrapper[q]
  PROVE  \A u \in Thread :
           /\ (pc'[u] = "idle") <=> (call'[u] = NoCall)
           /\ StartInv(u)' /\ MoveInv(u)' /\ EndInv(u)'
<1>1. /\ call' = [call EXCEPT ![t] = NoCall] /\ pc' = [pc EXCEPT ![t] = "idle"]
      /\ state' = state /\ kind' = kind
  BY DEF Return, vars
<1>2. /\ call'[t] = NoCall /\ \A u \in Thread \ {t} : call'[u] = call[u]
      /\ pc'[t] = "idle" /\ \A u \in Thread \ {t} : pc'[u] = pc[u]
  BY <1>1 DEF UseInv, SdkTypes
<1>3. TAKE u \in Thread
<1>4. (pc'[u] = "idle") <=> (call'[u] = NoCall)
  BY <1>2 DEF UseInv
<1>5. CASE u = t
  BY <1>2, <1>4, <1>5, NoCallFields DEF StartInv, MoveInv, EndInv
<1>6. CASE u # t
  <2>1. call'[u] = call[u] /\ pc'[u] = pc[u]
    BY <1>2, <1>6
  <2>2. call[u].seg \in Seg /\ Alone(u, call[u].seg) => Alone(u, call[u].seg)'
    BY <1>2, <2>1, NoCallFields, SegAssumption DEF Alone, Uses
  <2>3. /\ call[u].seg \in Seg => wrapper'[call[u].seg] = wrapper[call[u].seg]
        /\ call[u].par \in Seg => wrapper'[call[u].par] = wrapper[call[u].par]
    BY <1>6 DEF Alone, Uses
  <2>4. StartInv(u)'
    BY <1>1, <2>1, <2>2, <2>3 DEF UseInv, StartInv
  <2>5. MoveInv(u)'
    BY <1>1, <2>1, <2>3 DEF UseInv, MoveInv
  <2>6. EndInv(u)'
    BY <2>1, <2>2, <2>3 DEF UseInv, EndInv
  <2>7. QED
    BY <1>4, <2>4, <2>5, <2>6
<1>7. QED
  BY <1>5, <1>6

\* The call that returns was not the one that ends a segment other than its own.
LEMMA PastStays ==
  ASSUME UseInv, NEW t \in Thread, Return(t), NEW q \in Seg,
         call[t].op # "end" \/ call[t].seg # q
  PROVE  Past(q) => Past(q)'
<1>1. \A u \in Thread \ {t} : call'[u] = call[u] /\ pc'[u] = pc[u]
  BY DEF Return, UseInv, SdkTypes
<1>2. QED
  BY <1>1 DEF Past

\* A returning start hands the wrapper it made, if any, to the application.
LEMMA StartReturns ==
  ASSUME UseInv, NEW t \in Thread, ReturnStart(t)
  PROVE  UseInv'
<1> DEFINE s == call[t].seg
           made == wrapper[s] = "made"
           custom == call[t].kind = "custom"
<1>1. /\ Return(t) /\ call[t].op = "start"
      /\ call' = [call EXCEPT ![t] = NoCall] /\ pc' = [pc EXCEPT ![t] = "idle"]
      /\ state' = state /\ kind' = kind /\ fields' = fields
      /\ wrapper' = IF made THEN [wrapper EXCEPT ![s] = "owned"] ELSE wrapper
      /\ txnLock' = IF made /\ custom THEN [txnLock EXCEPT ![s] = TRUE]
                                      ELSE txnLock
  BY DEF ReturnStart, Return, vars
<1>2. /\ s \in Seg \ {Root} /\ Alone(t, s)
      /\ made => state[s] = "live" /\ kind[s] = call[t].kind
  BY <1>1 DEF UseInv, StartInv
<1>3. /\ wrapper' \in [Seg -> {"none", "made", "owned", "freed"}]
      /\ \A q \in Seg \ {s} : wrapper'[q] = wrapper[q]
      /\ wrapper'[s] = IF made THEN "owned" ELSE wrapper[s]
  BY <1>1, <1>2 DEF UseInv, SdkTypes
<1>4. /\ txnLock' \in [Seg -> BOOLEAN]
      /\ \A q \in Seg \ {s} : txnLock'[q] = txnLock[q]
      /\ txnLock'[s] = IF made /\ custom THEN TRUE ELSE txnLock[s]
  BY <1>1, <1>2 DEF UseInv, SdkTypes
<1>5. SdkTypes'
  BY <1>1, <1>3, <1>4, NoCallFields DEF UseInv, SdkTypes
<1>6. \A u \in Thread : /\ (pc'[u] = "idle") <=> (call'[u] = NoCall)
                        /\ StartInv(u)' /\ MoveInv(u)' /\ EndInv(u)'
  BY <1>1, <1>2, <1>3, <1>5, Returns
<1> HIDE DEF s, made, custom
<1>7. ASSUME NEW q \in Seg PROVE SegInv(q)'
  <2>1. Past(q) => Past(q)'
    BY <1>1, PastStays
  <2>2. SegInv(q)
    BY DEF UseInv
  <2>3. CASE q = s /\ made
    <3>1. fields[q] => kind[q] # "custom"
      BY <2>2 DEF SegInv
    <3>2. wrapper'[q] = "owned" /\ state'[q] = "live"
      BY <1>1, <1>2, <1>3, <2>3
    <3>3. kind'[q] = "custom" => txnLock'[q]
      BY <1>1, <1>2, <1>4, <2>3 DEF custom
    <3>4. QED
      BY <1>1, <3>1, <3>2, <3>3 DEF SegInv
  <2>4. CASE q # s \/ ~made
    <3>1. wrapper'[q] = wrapper[q] /\ txnLock'[q] = txnLock[q]
      BY <1>3, <1>4, <2>4
    <3>2. QED
      BY <1>1, <2>1, <2>2, <3>1 DEF SegInv
  <2>5. QED
    BY <2>3, <2>4
<1>8. RootInv'
  BY <1>1, <1>2, <1>3, SegAssumption DEF UseInv, RootInv
<1>9. QED
  BY <1>5, <1>6, <1>7, <1>8 DEF UseInv

\* newrelic_segment_destroy frees the wrapper and the strings it has left.
LEMMA EndReturns ==
  ASSUME UseInv, NEW t \in Thread, ReturnEnd(t)
  PROVE  UseInv'
<1> DEFINE s == call[t].seg
<1>1. /\ Return(t) /\ call[t].op \in {"end", "end_other"}
      /\ call' = [call EXCEPT ![t] = NoCall] /\ pc' = [pc EXCEPT ![t] = "idle"]
      /\ state' = state /\ kind' = kind /\ txnLock' = txnLock
      /\ wrapper' = [wrapper EXCEPT ![s] = "freed"]
      /\ fields' = FreedFields(s)
  BY DEF ReturnEnd, Return, vars
<1>2. s \in Seg /\ Alone(t, s) /\ wrapper[s] = "owned"
  BY <1>1 DEF UseInv, EndInv
<1>3. /\ wrapper' \in [Seg -> {"none", "made", "owned", "freed"}]
      /\ \A q \in Seg \ {s} : wrapper'[q] = wrapper[q]
      /\ wrapper'[s] = "freed"
  BY <1>1, <1>2 DEF UseInv, SdkTypes
<1>4. (fields[s] /\ kind[s] \notin {"datastore", "external"}) = FALSE
  <2>1. SegInv(s) /\ kind[s] \in AnyKind
    BY <1>2 DEF UseInv, SdkTypes
  <2>2. QED
    BY <2>1 DEF SegInv, AnyKind
<1>5. fields' = [fields EXCEPT ![s] = FALSE]
  BY <1>1, <1>4 DEF FreedFields
<1>6. /\ fields' \in [Seg -> BOOLEAN]
      /\ \A q \in Seg \ {s} : fields'[q] = fields[q]
      /\ fields'[s] = FALSE
  BY <1>2, <1>5 DEF UseInv, SdkTypes
<1>7. SdkTypes'
  BY <1>1, <1>3, <1>6, NoCallFields DEF UseInv, SdkTypes
<1>8. \A u \in Thread : /\ (pc'[u] = "idle") <=> (call'[u] = NoCall)
                        /\ StartInv(u)' /\ MoveInv(u)' /\ EndInv(u)'
  BY <1>1, <1>2, <1>3, <1>7, Returns
<1> HIDE DEF s
<1>9. ASSUME NEW q \in Seg PROVE SegInv(q)'
  <2>1. CASE q = s
    BY <1>3, <1>6, <2>1 DEF SegInv
  <2>2. CASE q # s
    <3>1. Past(q) => Past(q)'
      BY <1>1, <2>2, PastStays DEF s
    <3>2. SegInv(q) /\ wrapper'[q] = wrapper[q] /\ fields'[q] = fields[q]
      BY <1>3, <1>6, <2>2 DEF UseInv
    <3>3. QED
      BY <1>1, <3>1, <3>2 DEF SegInv
  <2>3. QED
    BY <2>1, <2>2
<1>10. RootInv'
  <2>1. s # Root
    BY <1>2 DEF UseInv, RootInv
  <2>2. QED
    BY <1>1, <1>3, <2>1, SegAssumption DEF UseInv, RootInv
<1>11. QED
  BY <1>7, <1>8, <1>9, <1>10 DEF UseInv

\* The other calls leave the wrappers as they are.
LEMMA OtherReturns ==
  ASSUME UseInv, NEW t \in Thread, ReturnOther(t) \/ ReturnEndTxn(t)
  PROVE  UseInv'
<1>1. /\ Return(t) /\ call[t].op # "end"
      /\ call' = [call EXCEPT ![t] = NoCall] /\ pc' = [pc EXCEPT ![t] = "idle"]
      /\ UNCHANGED <<state, kind, txnLock, wrapper, fields>>
  BY DEF ReturnOther, ReturnEndTxn, Return, vars
<1>2. SdkTypes'
  BY <1>1, NoCallFields DEF UseInv, SdkTypes
<1>3. \A u \in Thread : /\ (pc'[u] = "idle") <=> (call'[u] = NoCall)
                        /\ StartInv(u)' /\ MoveInv(u)' /\ EndInv(u)'
  <2>1. Nil \notin Seg
    BY SegAssumption
  <2>2. QED
    BY <1>1, <1>2, <2>1, Returns
<1>4. ASSUME NEW q \in Seg PROVE SegInv(q)'
  <2>1. Past(q) => Past(q)'
    BY <1>1, PastStays
  <2>2. QED
    BY <1>1, <2>1 DEF UseInv, SegInv
<1>5. RootInv'
  BY <1>1 DEF UseInv, RootInv
<1>6. QED
  BY <1>2, <1>3, <1>4, <1>5 DEF UseInv

\* No step of any thread breaks the promise of the wrappers.
LEMMA UseNext ==
  ASSUME UseInv, [SdkNext]_allVars
  PROVE  UseInv'
<1>1. CASE UNCHANGED allVars
  BY <1>1
     DEF allVars, vars, sdkVars, UseInv, SdkTypes, StartInv, MoveInv, EndInv,
         SegInv, RootInv, Past, Alone, Uses
<1>2. ASSUME NEW t \in Thread, NewCall(t) PROVE UseInv'
  BY <1>2, NewCalls
<1>3. ASSUME NEW t \in Thread, Step(t) PROVE UseInv'
  <2>1. CASE Acquire(t)
    BY <2>1, GoesOn DEF Acquire, vars
  <2>2. ASSUME NEW k \in AnyKind, BodyStart(t, k) PROVE UseInv'
    <3>1. CASE MakeSegment(call[t].seg, k)
      BY <2>2, <3>1, MakesSegment DEF BodyStart
    <3>2. CASE UNCHANGED <<vars, wrapper, kind, fields>>
      BY <2>2, <3>2, GoesOn DEF BodyStart, Goto, vars
    <3>3. QED
      BY <2>2, <3>1, <3>2 DEF BodyStart
  <2>3. CASE BodySetParent(t)
    BY <2>3, GoesOn DEF BodySetParent, Goto, vars
  <2>4. CASE Apply(t)
    BY <2>4, GoesOn DEF Apply, Goto
  <2>5. CASE BodyIgnore(t)
    BY <2>5, GoesOn DEF BodyIgnore, Ignore, Goto, vars
  <2>6. CASE BodyOther(t)
    BY <2>6, GoesOn DEF BodyOther, Goto, vars
  <2>7. CASE BodyEndTxn(t)
    BY <2>7, GoesOn DEF BodyEndTxn, EndTxn, EndTxnIgnored, Goto
  <2>8. CASE Unlock(t)
    BY <2>8, GoesOn DEF Unlock, vars
  <2>9. QED
    BY <1>3, <2>1, <2>2, <2>3, <2>4, <2>5, <2>6, <2>7, <2>8, EndsSegment,
       StartReturns, EndReturns, OtherReturns
       DEF Step, BodyStartSegment, BodyStartDatastore, BodyStartExternal,
           BodyEndSegment, BodyEndDatastore, BodyEndExternal, AnyKind
<1>4. QED
  BY <1>1, <1>2, <1>3 DEF SdkNext

\* The invariant of the wrappers holds in every state.
LEMMA UseAlways == SdkSpec => []UseInv
<1>1. ASSUME SdkInit PROVE UseInv
  <2>1. SdkTypes
    BY <1>1, NoCallFields, SegAssumption DEF SdkInit, Init, SdkTypes, AnyKind
  <2>2. \A t \in Thread : call[t] = NoCall /\ pc[t] = "idle"
    BY <1>1 DEF SdkInit
  <2>3. \A t \in Thread : StartInv(t) /\ MoveInv(t) /\ EndInv(t)
    BY <2>2, NoCallFields DEF StartInv, MoveInv, EndInv
  <2>4. \A s \in Seg : SegInv(s)
    BY <1>1 DEF SdkInit, SegInv
  <2>5. RootInv
    BY <1>1, SegAssumption DEF SdkInit, Init, RootInv
  <2>6. QED
    BY <2>1, <2>2, <2>3, <2>4, <2>5 DEF UseInv
<1>2. UseInv /\ [SdkNext]_allVars => UseInv'
  BY UseNext
<1>3. QED
  BY <1>1, <1>2, PTL DEF SdkSpec

\* A wrapper in the application's hands points to a live segment, for any
\* number of threads that start, move and end segments.
THEOREM WrappersAreLive == SdkSpec => []OwnedIsLive
<1>1. ASSUME UseInv, NEW s \in Seg, Usable(s)
      PROVE  state[s] = "live"
  BY <1>1 DEF UseInv, SegInv, Usable, Past, Ending
<1>2. UseInv => OwnedIsLive
  BY <1>1 DEF OwnedIsLive
<1>3. QED
  BY <1>2, UseAlways, PTL

\* A wrapper is freed with its strings, whichever call of newrelic_end_segment
\* frees it.
THEOREM FreedWhole == SdkSpec => []NothingLeaks
<1>1. UseInv => NothingLeaks
  BY DEF UseInv, SegInv, NothingLeaks
<1>2. QED
  BY <1>1, UseAlways, PTL

----------------------------------------------------------------------------
\* The lock. The calls that move a segment take it when they find it in the
\* wrapper, which newrelic_start_segment alone puts there: these results are
\* for applications that move custom segments only.

\* A step of t that leaves the lock and the parents as they are, and brings t
\* to no place where it should hold the lock and does not.
LEMMA LockKept ==
  ASSUME UseInv, LockInv, NEW t \in Thread, UNCHANGED <<lock, parent>>,
         \A u \in Thread \ {t} : call'[u] = call[u] /\ pc'[u] = pc[u],
         HoldInv(t)', ApplyInv(t)'
  PROVE  LockInv'
<1>1. ASSUME NEW u \in Thread, u # t
      PROVE  HoldInv(u)' /\ ApplyInv(u)'
  <2>1. HoldInv(u) /\ ApplyInv(u) /\ call'[u] = call[u] /\ pc'[u] = pc[u]
    BY <1>1 DEF LockInv
  <2>2. HoldInv(u)'
    BY <2>1 DEF HoldInv
  <2>3. ApplyInv(u)'
    BY <2>1 DEF ApplyInv, IsAncestorOrSelf
  <2>4. QED
    BY <2>2, <2>3
<1>2. QED
  BY <1>1 DEF LockInv

\* A step of a thread that holds the lock may change the parents: no other
\* thread is about to.
LEMMA LockHeld ==
  ASSUME UseInv, LockInv, NEW t \in Thread, lock = t, lock' = lock,
         call' = call, pc[t] = "body" \/ pc[t] = "apply",
         pc' = [pc EXCEPT ![t] = "unlock"]
  PROVE  LockInv'
<1>1. pc'[t] = "unlock" /\ \A u \in Thread \ {t} : pc'[u] = pc[u]
  BY DEF UseInv, SdkTypes
<1>2. HoldInv(t)' /\ ApplyInv(t)'
  BY <1>1 DEF HoldInv, ApplyInv
<1>3. ASSUME NEW u \in Thread, u # t
      PROVE  HoldInv(u)' /\ ApplyInv(u)'
  <2>1. HoldInv(u) /\ ApplyInv(u) /\ pc'[u] = pc[u]
    BY <1>1, <1>3 DEF LockInv
  <2>2. pc[u] # "apply"
    BY <1>3, <2>1 DEF HoldInv, ApplyInv, Locking
  <2>3. QED
    BY <2>1, <2>2 DEF HoldInv, ApplyInv
<1>4. QED
  BY <1>2, <1>3 DEF LockInv

\* A call enters its body without the lock only if it takes none.
LEMMA LockEnter ==
  ASSUME UseInv, LockInv, NEW t \in Thread, NEW c, Enter(t, c),
         c.op \in {"set_parent", "set_timing"} => txnLock[c.seg]
  PROVE  LockInv'
<1>1. /\ \A u \in Thread \ {t} : call'[u] = call[u] /\ pc'[u] = pc[u]
      /\ call'[t] = c
      /\ pc'[t] = IF TakesLock(c) THEN "lock"
                  ELSE IF c.op = "end_other" THEN "tail" ELSE "body"
      /\ UNCHANGED <<lock, parent>>
  BY DEF Enter, UseInv, SdkTypes, vars
<1>2. c.op \in Locking => TakesLock(c)
  BY DEF TakesLock, Locking
<1>3. HoldInv(t)' /\ ApplyInv(t)'
  BY <1>1, <1>2 DEF HoldInv, ApplyInv
<1>4. QED
  BY <1>1, <1>3, LockKept

\* The wrapper of a custom segment has the lock.
LEMMA CustomHasLock ==
  ASSUME UseInv, Moved \subseteq {"custom"}, NEW s \in Seg, Usable(s),
         kind[s] \in Moved
  PROVE  txnLock[s]
BY DEF UseInv, SegInv, Usable

\* New calls find the lock.
LEMMA LockNewCall ==
  ASSUME UseInv, LockInv, Moved \subseteq {"custom"}, NEW t \in Thread,
         NewCall(t)
  PROVE  LockInv'
<1>1. ASSUME NEW s \in Seg, NEW k, CallStart(t, s, k) PROVE LockInv'
  <2> DEFINE c == [NoCall EXCEPT !.op = "start", !.seg = s, !.kind = k]
  <2>1. Enter(t, c) /\ c.op = "start"
    BY <1>1 DEF CallStart, NoCall
  <2> HIDE DEF c
  <2>2. QED
    BY <2>1, LockEnter
<1>2. ASSUME NEW s \in Seg, NEW p \in Seg, CallSetParent(t, s, p)
      PROVE  LockInv'
  <2> DEFINE c == [NoCall EXCEPT !.op = "set_parent", !.seg = s, !.par = p]
  <2>1. Enter(t, c) /\ c.seg = s /\ txnLock[s]
    BY <1>2, CustomHasLock DEF CallSetParent, NoCall
  <2> HIDE DEF c
  <2>2. QED
    BY <2>1, LockEnter
<1>3. ASSUME NEW s \in Seg, CallSetTiming(t, s) PROVE LockInv'
  <2> DEFINE c == [NoCall EXCEPT !.op = "set_timing", !.seg = s]
  <2>1. Enter(t, c) /\ c.seg = s /\ txnLock[s]
    BY <1>3, CustomHasLock DEF CallSetTiming, NoCall
  <2> HIDE DEF c
  <2>2. QED
    BY <2>1, LockEnter
<1>4. ASSUME NEW s \in Seg, NEW op \in {"end", "end_other"}, CallEnd(t, s, op)
      PROVE  LockInv'
  <2> DEFINE c == [NoCall EXCEPT !.op = op, !.seg = s]
  <2>1. Enter(t, c) /\ c.op = op
    BY <1>4 DEF CallEnd, NoCall
  <2> HIDE DEF c
  <2>2. QED
    BY <2>1, LockEnter
<1>5. ASSUME NEW op \in {"record", "ignore", "set_name", "end_txn"},
             Enter(t, [NoCall EXCEPT !.op = op])
      PROVE  LockInv'
  <2> DEFINE c == [NoCall EXCEPT !.op = op]
  <2>1. Enter(t, c) /\ c.op = op
    BY <1>5 DEF NoCall
  <2> HIDE DEF c
  <2>2. QED
    BY <2>1, LockEnter
<1>6. QED
  BY <1>1, <1>2, <1>3, <1>4, <1>5
     DEF NewCall, CallStartSegment, CallStartDatastore, CallStartExternal,
         CallOnTxn, CallEndTxn

\* A step of a call in progress that changes no parent keeps the lock with
\* who holds it.
LEMMA LockGoesOn ==
  ASSUME UseInv, LockInv, NEW t \in Thread, UNCHANGED <<lock, parent, call>>,
         NEW l \in {"unlock", "tail"},
         pc[t] = "body" \/ l = "tail", pc' = [pc EXCEPT ![t] = l]
  PROVE  LockInv'
<1>1. /\ \A u \in Thread \ {t} : call'[u] = call[u] /\ pc'[u] = pc[u]
      /\ pc'[t] = l /\ call'[t] = call[t]
  BY DEF UseInv, SdkTypes
<1>2. HoldInv(t)' /\ ApplyInv(t)'
  BY <1>1 DEF LockInv, HoldInv, ApplyInv
<1>3. QED
  BY <1>1, <1>2, LockKept

\* A call that returns holds nothing.
LEMMA LockReturn ==
  ASSUME UseInv, LockInv, NEW t \in Thread, Return(t)
  PROVE  LockInv'
<1>1. /\ \A u \in Thread \ {t} : call'[u] = call[u] /\ pc'[u] = pc[u]
      /\ pc'[t] = "idle" /\ UNCHANGED <<lock, parent>>
  BY DEF Return, UseInv, SdkTypes, vars
<1>2. HoldInv(t)' /\ ApplyInv(t)'
  BY <1>1 DEF HoldInv, ApplyInv
<1>3. QED
  BY <1>1, <1>2, LockKept

\* No step takes the lock from the thread that holds it.
LEMMA LockNext ==
  ASSUME UseInv, LockInv, Moved \subseteq {"custom"}, [SdkNext]_allVars
  PROVE  LockInv'
<1>1. CASE UNCHANGED allVars
  BY <1>1 DEF allVars, vars, sdkVars, LockInv, HoldInv, ApplyInv,
              IsAncestorOrSelf
<1>2. ASSUME NEW t \in Thread, NewCall(t) PROVE LockInv'
  BY <1>2, LockNewCall
<1>3. ASSUME NEW t \in Thread, Step(t) PROVE LockInv'
  <2>0. HoldInv(t) /\ ApplyInv(t)
    BY DEF LockInv
  <2>1. CASE Acquire(t)
    <3>1. /\ \A u \in Thread \ {t} : call'[u] = call[u] /\ pc'[u] = pc[u]
          /\ pc'[t] = "body" /\ lock' = t /\ lock = Nil /\ parent' = parent
      BY <2>1 DEF Acquire, UseInv, SdkTypes, vars
    <3>2. HoldInv(t)' /\ ApplyInv(t)'
      BY <3>1 DEF HoldInv, ApplyInv
    <3>3. ASSUME NEW u \in Thread, u # t
          PROVE  HoldInv(u)' /\ ApplyInv(u)'
      <4>1. HoldInv(u) /\ ApplyInv(u) /\ lock # u
        BY <3>1, SdkAssumption DEF LockInv
      <4>2. QED
        BY <3>1, <3>3, <4>1 DEF HoldInv, ApplyInv, Locking
    <3>4. QED
      BY <3>2, <3>3 DEF LockInv
  <2>2. ASSUME NEW k, BodyStart(t, k) PROVE LockInv'
    <3>1. lock = t
      BY <2>0, <2>2 DEF BodyStart, HoldInv, Locking
    <3>2. QED
      BY <2>2, <3>1, LockHeld DEF BodyStart, Goto
  <2>3. CASE BodySetParent(t)
    <3>1. CASE \/ parent[call[t].seg] = call[t].par
               \/ IsAncestorOrSelf(call[t].seg, call[t].par)
      BY <2>3, <3>1, LockGoesOn DEF BodySetParent, Goto, vars
    <3>2. CASE ~(\/ parent[call[t].seg] = call[t].par
                 \/ IsAncestorOrSelf(call[t].seg, call[t].par))
      <4>1. /\ \A u \in Thread \ {t} : call'[u] = call[u] /\ pc'[u] = pc[u]
            /\ pc[t] = "body" /\ pc'[t] = "apply" /\ call'[t] = call[t]
            /\ call[t].op = "set_parent" /\ UNCHANGED <<lock, parent>>
        BY <2>3, <3>2 DEF BodySetParent, Goto, vars, UseInv, SdkTypes
      <4>2. HoldInv(t)'
        BY <2>0, <4>1 DEF HoldInv
      <4>3. ApplyInv(t)'
        BY <3>2, <4>1 DEF ApplyInv, IsAncestorOrSelf
      <4>4. QED
        BY <4>1, <4>2, <4>3, LockKept
    <3>3. QED
      BY <3>1, <3>2
  <2>4. CASE Apply(t)
    <3>1. lock = t
      BY <2>0, <2>4 DEF Apply, HoldInv, ApplyInv, Locking
    <3>2. QED
      BY <2>4, <3>1, LockHeld DEF Apply, Goto
  <2>5. ASSUME NEW k, BodyEnd(t, k) PROVE LockInv'
    BY <2>5, LockGoesOn DEF BodyEnd, End, Goto
  <2>6. CASE BodyIgnore(t) \/ BodyOther(t)
    BY <2>6, LockGoesOn DEF BodyIgnore, Ignore, BodyOther, Goto, vars
  <2>7. CASE BodyEndTxn(t)
    BY <2>7, LockGoesOn DEF BodyEndTxn, EndTxn, EndTxnIgnored, Goto
  <2>8. CASE Unlock(t)
    <3>1. /\ \A u \in Thread \ {t} : call'[u] = call[u] /\ pc'[u] = pc[u]
          /\ pc'[t] = "tail" /\ parent' = parent
          /\ lock' = IF lock = t THEN Nil ELSE lock
      BY <2>8 DEF Unlock, UseInv, SdkTypes, vars
    <3>2. HoldInv(t)' /\ ApplyInv(t)'
      BY <3>1 DEF HoldInv, ApplyInv
    <3>3. ASSUME NEW u \in Thread, u # t
          PROVE  HoldInv(u)' /\ ApplyInv(u)'
      <4>1. /\ HoldInv(u) /\ ApplyInv(u)
            /\ call'[u] = call[u] /\ pc'[u] = pc[u]
            /\ lock = u => lock' = u
        BY <3>1, <3>3 DEF LockInv
      <4>2. HoldInv(u)'
        BY <4>1 DEF HoldInv
      <4>3. ApplyInv(u)'
        BY <3>1, <4>1 DEF ApplyInv, IsAncestorOrSelf
      <4>4. QED
        BY <4>2, <4>3
    <3>4. QED
      BY <3>2, <3>3 DEF LockInv
  <2>9. CASE \/ ReturnStart(t) \/ ReturnEnd(t)
             \/ ReturnEndTxn(t) \/ ReturnOther(t)
    BY <2>9, LockReturn DEF ReturnStart, ReturnEnd, ReturnEndTxn, ReturnOther
  <2>10. QED
    BY <1>3, <2>1, <2>2, <2>3, <2>4, <2>5, <2>6, <2>7, <2>8, <2>9
       DEF Step, BodyStartSegment, BodyStartDatastore, BodyStartExternal,
           BodyEndSegment, BodyEndDatastore, BodyEndExternal
<1>4. QED
  BY <1>1, <1>2, <1>3 DEF SdkNext

----------------------------------------------------------------------------
\* The end of the transaction

\* A step of a call in progress that leaves the status, or only stops the
\* recording, or ends the transaction in the call that does so.
LEMMA CompleteGoesOn ==
  ASSUME UseInv, CompleteInv, NEW t \in Thread, pc[t] # "idle",
         NEW l, pc' = [pc EXCEPT ![t] = l], UNCHANGED <<call, txn>>,
         \/ status' = "complete" => status = "complete"
         \/ call[t].op = "end_txn"
  PROVE  CompleteInv'
<1>1. pc'[t] = l /\ \A u \in Thread \ {t} : pc'[u] = pc[u]
  BY DEF UseInv, SdkTypes
<1>2. \A v \in Thread : call[v].op = "end_txn" => v = t
  BY DEF CompleteInv
<1>3. \A v, u \in Thread : call'[v].op = "end_txn" /\ u # v => pc'[u] = "idle"
  BY <1>1, <1>2 DEF CompleteInv
<1>4. CASE call[t].op = "end_txn"
  BY <1>1, <1>3, <1>4 DEF CompleteInv
<1>5. CASE call[t].op # "end_txn"
  BY <1>3, <1>5 DEF CompleteInv
<1>6. QED
  BY <1>4, <1>5

\* No call begins once the transaction is being ended.
LEMMA CompleteEnter ==
  ASSUME UseInv, CompleteInv, NEW t \in Thread, NEW c, Enter(t, c),
         c.op = "end_txn" => \A u \in Thread : pc[u] = "idle"
  PROVE  CompleteInv'
<1>1. /\ \A u \in Thread \ {t} : call'[u] = call[u] /\ pc'[u] = pc[u]
      /\ call'[t] = c /\ status' = status
      /\ txn = "active" /\ \A u \in Thread : call[u].op # "end_txn"
  BY DEF Enter, UseInv, SdkTypes, vars
<1>2. status # "complete"
  BY <1>1 DEF CompleteInv
<1>3. QED
  BY <1>1, <1>2 DEF CompleteInv

\* The call that ends the transaction frees it before it returns.
LEMMA CompleteReturn ==
  ASSUME UseInv, CompleteInv, NEW t \in Thread, Return(t),
         IF call[t].op = "end_txn" THEN txn' = "freed" ELSE txn' = txn
  PROVE  CompleteInv'
<1>1. /\ \A u \in Thread \ {t} : call'[u] = call[u] /\ pc'[u] = pc[u]
      /\ call'[t].op # "end_txn" /\ pc[t] = "tail" /\ pc'[t] = "idle"
      /\ status' = status
  BY NoCallFields DEF Return, UseInv, SdkTypes, vars
<1>2. \A v \in Thread : call'[v].op # "end_txn"
  BY <1>1 DEF CompleteInv
<1>3. CASE call[t].op = "end_txn"
  BY <1>1, <1>2, <1>3 DEF CompleteInv
<1>4. CASE call[t].op # "end_txn"
  BY <1>1, <1>2, <1>4 DEF CompleteInv
<1>5. QED
  BY <1>3, <1>4

\* No step but newrelic_end_transaction, alone, completes the transaction.
LEMMA CompleteNext ==
  ASSUME UseInv, CompleteInv, [SdkNext]_allVars
  PROVE  CompleteInv'
<1>1. CASE UNCHANGED allVars
  BY <1>1 DEF allVars, vars, sdkVars, CompleteInv
<1>2. ASSUME NEW t \in Thread, NewCall(t) PROVE CompleteInv'
  <2>1. ASSUME NEW c, Enter(t, c), c.op # "end_txn" PROVE CompleteInv'
    BY <2>1, CompleteEnter
  <2>2. ASSUME NEW s, NEW k, CallStart(t, s, k) PROVE CompleteInv'
    BY <2>1, <2>2 DEF CallStart, NoCall
  <2>3. ASSUME NEW s, NEW p, CallSetParent(t, s, p) PROVE CompleteInv'
    BY <2>1, <2>3 DEF CallSetParent, NoCall
  <2>4. ASSUME NEW s, CallSetTiming(t, s) PROVE CompleteInv'
    BY <2>1, <2>4 DEF CallSetTiming, NoCall
  <2>5. ASSUME NEW s, NEW op \in {"end", "end_other"}, CallEnd(t, s, op)
        PROVE  CompleteInv'
    BY <2>1, <2>5 DEF CallEnd, NoCall
  <2>6. ASSUME NEW op \in {"record", "ignore", "set_name"}, CallOnTxn(t, op)
        PROVE  CompleteInv'
    BY <2>1, <2>6 DEF CallOnTxn, NoCall
  <2>7. CASE CallEndTxn(t)
    BY <2>7, CompleteEnter DEF CallEndTxn
  <2>8. QED
    BY <1>2, <2>2, <2>3, <2>4, <2>5, <2>6, <2>7
       DEF NewCall, CallStartSegment, CallStartDatastore, CallStartExternal
<1>3. ASSUME NEW t \in Thread, Step(t) PROVE CompleteInv'
  <2>1. CASE Acquire(t) \/ Unlock(t)
    BY <2>1, CompleteGoesOn DEF Acquire, Unlock, vars
  <2>2. ASSUME NEW k, BodyStart(t, k) PROVE CompleteInv'
    BY <2>2, CompleteGoesOn DEF BodyStart, MakeSegment, Start, Goto, vars
  <2>3. CASE BodySetParent(t) \/ BodyOther(t)
    BY <2>3, CompleteGoesOn DEF BodySetParent, BodyOther, Goto, vars
  <2>4. CASE Apply(t)
    BY <2>4, CompleteGoesOn DEF Apply, Goto
  <2>5. ASSUME NEW k, BodyEnd(t, k) PROVE CompleteInv'
    BY <2>5, CompleteGoesOn DEF BodyEnd, End, Goto
  <2>6. CASE BodyIgnore(t)
    BY <2>6, CompleteGoesOn DEF BodyIgnore, Ignore, Goto, vars
  <2>7. CASE BodyEndTxn(t)
    BY <2>7, CompleteGoesOn DEF BodyEndTxn, Goto
  <2>8. CASE ReturnStart(t) \/ ReturnEnd(t) \/ ReturnOther(t)
    BY <2>8, CompleteReturn DEF ReturnStart, ReturnEnd, ReturnOther
  <2>9. CASE ReturnEndTxn(t)
    BY <2>9, CompleteReturn DEF ReturnEndTxn
  <2>10. QED
    BY <1>3, <2>1, <2>2, <2>3, <2>4, <2>5, <2>6, <2>7, <2>8, <2>9
       DEF Step, BodyStartSegment, BodyStartDatastore, BodyStartExternal,
           BodyEndSegment, BodyEndDatastore, BodyEndExternal
<1>4. QED
  BY <1>1, <1>2, <1>3 DEF SdkNext

----------------------------------------------------------------------------
\* The tree

\* Every step of a thread is a step of one call of nr_segment.c on the tree, or
\* none.
LEMMA TreeStep ==
  ASSUME UseInv, LockInv, CompleteInv, [SdkNext]_allVars
  PROVE  [Next]_vars
<1>1. CASE UNCHANGED allVars
  BY <1>1 DEF allVars
<1>2. ASSUME NEW t \in Thread, NewCall(t) PROVE UNCHANGED vars
  BY <1>2 DEF NewCall, CallStartSegment, CallStartDatastore, CallStartExternal,
              CallStart, CallSetParent, CallSetTiming, CallEnd, CallOnTxn,
              CallEndTxn, Enter
<1>3. ASSUME NEW t \in Thread, Step(t) PROVE [Next]_vars
  <2>1. CASE Acquire(t) \/ Unlock(t) \/ BodySetParent(t) \/ BodyOther(t)
    BY <2>1 DEF Acquire, Unlock, BodySetParent, BodyOther
  <2>2. ASSUME NEW k, BodyStart(t, k) PROVE [Next]_vars
    <3>1. call[t].seg \in Seg /\ Main \in Context
      BY <2>2, SegAssumption DEF BodyStart, UseInv, StartInv
    <3>2. QED
      BY <2>2, <3>1 DEF BodyStart, MakeSegment, Next
  <2>3. CASE Apply(t)
    <3> DEFINE s == call[t].seg
               p == call[t].par
    <3>1. /\ pc[t] = "apply" /\ call[t].op = "set_parent"
          /\ parent[s] # p /\ ~IsAncestorOrSelf(s, p)
      BY <2>3 DEF Apply, LockInv, ApplyInv
    <3>2. /\ s \in Seg /\ wrapper[s] = "owned"
          /\ p = Root \/ (p \in Seg /\ wrapper[p] = "owned")
      BY <3>1 DEF UseInv, MoveInv
    <3>3. status # "complete"
      BY <3>1 DEF CompleteInv
    <3>4. ASSUME NEW q \in Seg, q = s \/ q = p, wrapper[q] = "owned"
          PROVE  state[q] = "live"
      <4>1. ~Past(q)
        BY <3>1, <3>4 DEF Past, UseInv, EndInv, Alone, Uses
      <4>2. QED
        BY <3>4, <4>1 DEF UseInv, SegInv
    <3>5. s \in Present /\ p \in Present
      BY <3>2, <3>4, SegAssumption DEF Present, UseInv, RootInv
    <3>6. SetParent(s, p)
      BY <2>3, <3>1, <3>3, <3>5 DEF Apply, SetParent
    <3>7. s \in Seg /\ p \in Seg
      BY <3>5 DEF Present
    <3> HIDE DEF s, p
    <3>8. QED
      BY <3>6, <3>7 DEF Next
  <2>4. ASSUME NEW k, BodyEnd(t, k) PROVE [Next]_vars
    <3>1. call[t].seg \in Seg
      BY <2>4 DEF BodyEnd, UseInv, EndInv
    <3>2. QED
      BY <2>4, <3>1 DEF BodyEnd, Next
  <2>5. CASE BodyIgnore(t)
    BY <2>5 DEF BodyIgnore, Next
  <2>6. CASE BodyEndTxn(t)
    BY <2>6 DEF BodyEndTxn, Next
  <2>7. CASE \/ ReturnStart(t) \/ ReturnEnd(t)
             \/ ReturnEndTxn(t) \/ ReturnOther(t)
    BY <2>7 DEF ReturnStart, ReturnEnd, ReturnEndTxn, ReturnOther, Return
  <2>8. QED
    BY <1>3, <2>1, <2>2, <2>3, <2>4, <2>5, <2>6, <2>7
       DEF Step, BodyStartSegment, BodyStartDatastore, BodyStartExternal,
           BodyEndSegment, BodyEndDatastore, BodyEndExternal
<1>4. QED
  BY <1>1, <1>2, <1>3 DEF SdkNext

\* The lock and the end of the transaction, in every state.
LEMMA LockAlways ==
  ASSUME Moved \subseteq {"custom"}
  PROVE  SdkSpec => [](LockInv /\ CompleteInv)
<1>1. ASSUME SdkInit PROVE LockInv /\ CompleteInv
  <2>1. /\ \A t \in Thread : call[t].op = "none" /\ pc[t] = "idle"
        /\ status = "recording"
    BY <1>1, NoCallFields DEF SdkInit, Init
  <2>2. QED
    BY <2>1 DEF LockInv, HoldInv, ApplyInv, CompleteInv
<1>2. UseInv /\ LockInv /\ CompleteInv /\ [SdkNext]_allVars
        => LockInv' /\ CompleteInv'
  BY LockNext, CompleteNext
<1>3. QED
  BY <1>1, <1>2, UseAlways, PTL DEF SdkSpec

\* Where the application moves custom segments only, what its threads do to the
\* segments together is what one thread could do: the look of
\* nr_segment_set_parent and its change are one step, although
\* newrelic_ignore_transaction takes no lock.
THEOREM CallsAreAtomic ==
  ASSUME Moved \subseteq {"custom"}
  PROVE  SdkSpec => ImplementsTree
<1>1. SdkInit => Init
  BY DEF SdkInit
<1>2. UseInv /\ LockInv /\ CompleteInv /\ [SdkNext]_allVars => [Next]_vars
  BY TreeStep
<1>3. QED
  BY <1>1, <1>2, UseAlways, LockAlways, PTL DEF SdkSpec, Spec, ImplementsTree

\* The tree stays whole under the threads: children and parents agree, there is
\* no cycle, every segment hangs under the root, the current segments are live
\* and the count of ended segments is exact.
THEOREM TreeUnderThreads ==
  ASSUME Moved \subseteq {"custom"}
  PROVE  SdkSpec => []( /\ TreeConsistent /\ Acyclic /\ Rooted
                        /\ StackLive /\ CountMatches )
BY CallsAreAtomic, AlwaysTree, NeverCyclic, AlwaysRooted, CurrentIsLive,
   CountIsExact, PTL DEF ImplementsTree
=============================================================================
