-------------------------- MODULE AtomicPtrProofs --------------------------
(***************************************************************************)
(* Proofs about AtomicPtr for any number of threads, pointers, values and  *)
(* calls: its type invariant, mutual exclusion of checked-out pointers,    *)
(* and linearizability (AtomicPtr implements AtomicCells).                 *)
(***************************************************************************)
EXTENDS AtomicPtr, TLAPS

\* What SwapCall and the single-pointer calls build: a well-formed call that
\* writes a real value for Set and the sentinel otherwise.
LEMMA CallsTyped ==
  ASSUME NEW c \in Calls
  PROVE  /\ c \in Operation
         /\ c.kind \in SetKinds => c.x \in Val
         /\ c.kind \notin SetKinds => c.x = ATOMIC_NULL
<1>1. CASE c \in SingleCalls
  BY <1>1, KindsAssumption
  DEF SingleCalls, Operation, Word, AllKinds, SetKinds, GetKinds, CheckoutKinds
<1>2. CASE c \in SwapCalls
  <2>1. PICK d \in (Kinds \cap SwapKinds) \X Ptr \X Ptr :
               c = SwapCall(d[1], d[2], d[3])
    BY <1>2 DEF SwapCalls
  <2>2. d[1] \in SwapKinds /\ d[2] \in Ptr /\ d[3] \in Ptr
    OBVIOUS
  <2>. QED
    BY <2>1, <2>2 DEF SwapCall, Operation, Word, AllKinds, SetKinds, SwapKinds
<1>. QED
  BY <1>1, <1>2 DEF Calls

LEMMA InitIInv == Init => IInv
  BY ValAssumption, StartAssumption, MaxCallsAssumption
  DEF Init, IInv, TypeOK, CallState, MutualExclusion, Holds, Word, PCs

LEMMA TypeStep == IInv /\ [Next]_vars => TypeOK'
<1>. SUFFICES ASSUME IInv, [Next]_vars PROVE TypeOK'
  OBVIOUS
<1>. USE MaxCallsAssumption DEF IInv, TypeOK, Goto, Write, Finish
<1>1. ASSUME NEW t \in Thread, Call(t) PROVE TypeOK'
  BY <1>1, CallsTyped DEF Call, PCs
<1>2. ASSUME NEW t \in Thread, LoadFirst(t) PROVE TypeOK'
  BY <1>2, CallsTyped DEF LoadFirst, PCs, CallState, Word, Operation
<1>3. ASSUME NEW t \in Thread, TryLoadFirstFails(t) PROVE TypeOK'
  BY <1>3 DEF TryLoadFirstFails, PCs
<1>4. ASSUME NEW t \in Thread, CasFirst(t) PROVE TypeOK'
  BY <1>4, CallsTyped DEF CasFirst, PCs, CallState, Word, Operation
<1>5. ASSUME NEW t \in Thread, CasFirstFails(t) PROVE TypeOK'
  BY <1>5 DEF CasFirstFails, PCs
<1>6. ASSUME NEW t \in Thread, LoadLast(t) PROVE TypeOK'
  BY <1>6, CallsTyped DEF LoadLast, PCs, CallState, Word, Operation
<1>7. ASSUME NEW t \in Thread, TryLoadLastFails(t) PROVE TypeOK'
  BY <1>7 DEF TryLoadLastFails, PCs
<1>8. ASSUME NEW t \in Thread, CasLast(t) PROVE TypeOK'
  BY <1>8, CallsTyped DEF CasLast, PCs, CallState, Word, Operation
<1>9. ASSUME NEW t \in Thread, CasLastFails(t) PROVE TypeOK'
  BY <1>9 DEF CasLastFails, PCs
<1>10. ASSUME NEW t \in Thread, Checkin(t) PROVE TypeOK'
  BY <1>10, CallsTyped DEF Checkin, PCs, CallState, Word, Operation
<1>11. ASSUME NEW t \in Thread, CallerCheckin(t) PROVE TypeOK'
  BY <1>11, CallsTyped DEF CallerCheckin, PCs, CallState, Word, Operation
<1>12. CASE UNCHANGED vars
  BY <1>12 DEF vars
<1>. QED
  BY <1>1, <1>2, <1>3, <1>4, <1>5, <1>6, <1>7, <1>8, <1>9, <1>10, <1>11, <1>12
  DEF Next, Step, Terminated

LEMMA CallStateStep == IInv /\ [Next]_vars => CallState'
<1>. SUFFICES ASSUME IInv, [Next]_vars PROVE CallState'
  OBVIOUS
<1>. USE ValAssumption DEF IInv, TypeOK, CallState, Goto, Write, Finish
<1>1. ASSUME NEW t \in Thread, Call(t) PROVE CallState'
  BY <1>1, CallsTyped DEF Call, Word, Operation, SetKinds, GetKinds, SwapKinds,
     CheckoutKinds
<1>2. ASSUME NEW t \in Thread, LoadFirst(t) PROVE CallState'
  BY <1>2, CallsTyped DEF LoadFirst, Word, Operation, SetKinds, GetKinds, SwapKinds,
     CheckoutKinds
<1>3. ASSUME NEW t \in Thread, TryLoadFirstFails(t) PROVE CallState'
  BY <1>3, CallsTyped DEF TryLoadFirstFails, Word, Operation, SetKinds, GetKinds, SwapKinds,
     CheckoutKinds
<1>4. ASSUME NEW t \in Thread, CasFirst(t) PROVE CallState'
  BY <1>4, CallsTyped DEF CasFirst, Word, Operation, SetKinds, GetKinds, SwapKinds,
     CheckoutKinds
<1>5. ASSUME NEW t \in Thread, CasFirstFails(t) PROVE CallState'
  BY <1>5, CallsTyped DEF CasFirstFails, Word, Operation, SetKinds, GetKinds, SwapKinds,
     CheckoutKinds
<1>6. ASSUME NEW t \in Thread, LoadLast(t) PROVE CallState'
  BY <1>6, CallsTyped DEF LoadLast, Word, Operation, SetKinds, GetKinds, SwapKinds,
     CheckoutKinds
<1>7. ASSUME NEW t \in Thread, TryLoadLastFails(t) PROVE CallState'
  BY <1>7, CallsTyped DEF TryLoadLastFails, Word, Operation, SetKinds, GetKinds, SwapKinds,
     CheckoutKinds
<1>8. ASSUME NEW t \in Thread, CasLast(t) PROVE CallState'
  BY <1>8, CallsTyped DEF CasLast, Word, Operation, SetKinds, GetKinds, SwapKinds,
     CheckoutKinds
<1>9. ASSUME NEW t \in Thread, CasLastFails(t) PROVE CallState'
  BY <1>9, CallsTyped DEF CasLastFails, Word, Operation, SetKinds, GetKinds, SwapKinds,
     CheckoutKinds
<1>10. ASSUME NEW t \in Thread, Checkin(t) PROVE CallState'
  BY <1>10, CallsTyped DEF Checkin, Word, Operation, SetKinds, GetKinds, SwapKinds,
     CheckoutKinds
<1>11. ASSUME NEW t \in Thread, CallerCheckin(t) PROVE CallState'
  BY <1>11, CallsTyped DEF CallerCheckin, Word, Operation, SetKinds, GetKinds, SwapKinds,
     CheckoutKinds
<1>12. CASE UNCHANGED vars
  BY <1>12 DEF vars
<1>. QED
  BY <1>1, <1>2, <1>3, <1>4, <1>5, <1>6, <1>7, <1>8, <1>9, <1>10, <1>11, <1>12
  DEF Next, Step, Terminated

LEMMA MutexStep == IInv /\ [Next]_vars => MutualExclusion'
<1>. SUFFICES ASSUME IInv, [Next]_vars PROVE MutualExclusion'
  OBVIOUS
<1>. USE ValAssumption DEF IInv, TypeOK, MutualExclusion, Holds, Goto, Write, Finish
<1>1. ASSUME NEW t \in Thread, Call(t) PROVE MutualExclusion'
  BY <1>1, CallsTyped DEF Call, CallState, Word, Operation, SetKinds, GetKinds,
     SwapKinds, CheckoutKinds
<1>2. ASSUME NEW t \in Thread, LoadFirst(t) PROVE MutualExclusion'
  BY <1>2, CallsTyped DEF LoadFirst, CallState, Word, Operation, SetKinds, GetKinds,
     SwapKinds, CheckoutKinds
<1>3. ASSUME NEW t \in Thread, TryLoadFirstFails(t) PROVE MutualExclusion'
  BY <1>3, CallsTyped DEF TryLoadFirstFails, CallState, Word, Operation, SetKinds, GetKinds,
     SwapKinds, CheckoutKinds
<1>4. ASSUME NEW t \in Thread, CasFirst(t) PROVE MutualExclusion'
  BY <1>4, CallsTyped DEF CasFirst, CallState, Word, Operation, SetKinds, GetKinds,
     SwapKinds, CheckoutKinds
<1>5. ASSUME NEW t \in Thread, CasFirstFails(t) PROVE MutualExclusion'
  BY <1>5, CallsTyped DEF CasFirstFails, CallState, Word, Operation, SetKinds, GetKinds,
     SwapKinds, CheckoutKinds
<1>6. ASSUME NEW t \in Thread, LoadLast(t) PROVE MutualExclusion'
  BY <1>6, CallsTyped DEF LoadLast, CallState, Word, Operation, SetKinds, GetKinds,
     SwapKinds, CheckoutKinds
<1>7. ASSUME NEW t \in Thread, TryLoadLastFails(t) PROVE MutualExclusion'
  BY <1>7, CallsTyped DEF TryLoadLastFails, CallState, Word, Operation, SetKinds, GetKinds,
     SwapKinds, CheckoutKinds
<1>8. ASSUME NEW t \in Thread, CasLast(t) PROVE MutualExclusion'
  BY <1>8, CallsTyped DEF CasLast, CallState, Word, Operation, SetKinds, GetKinds,
     SwapKinds, CheckoutKinds
<1>9. ASSUME NEW t \in Thread, CasLastFails(t) PROVE MutualExclusion'
  BY <1>9, CallsTyped DEF CasLastFails, CallState, Word, Operation, SetKinds, GetKinds,
     SwapKinds, CheckoutKinds
<1>10. ASSUME NEW t \in Thread, Checkin(t) PROVE MutualExclusion'
  BY <1>10, CallsTyped DEF Checkin, CallState, Word, Operation, SetKinds, GetKinds,
     SwapKinds, CheckoutKinds
<1>11. ASSUME NEW t \in Thread, CallerCheckin(t) PROVE MutualExclusion'
  BY <1>11, CallsTyped DEF CallerCheckin, CallState, Word, Operation, SetKinds, GetKinds,
     SwapKinds, CheckoutKinds
<1>12. CASE UNCHANGED vars
  BY <1>12 DEF vars
<1>. QED
  BY <1>1, <1>2, <1>3, <1>4, <1>5, <1>6, <1>7, <1>8, <1>9, <1>10, <1>11, <1>12
  DEF Next, Step, Terminated

LEMMA IInvStep == IInv /\ [Next]_vars => IInv'
  BY TypeStep, CallStateStep, MutexStep DEF IInv

THEOREM IInvInvariant == Spec => []IInv
  BY InitIInv, IInvStep, PTL DEF Spec

\* Type correctness: every word, local and result stays in its type.
THEOREM TypeCorrect == Spec => []TypeOK
  BY IInvInvariant, PTL DEF IInv

\* Mutex semantics of Checkout/Checkin (AtomicPtr.h:276-298), for any number
\* of threads: a pointer holds the sentinel exactly while one thread has it.
THEOREM MutexCorrect == Spec => []MutualExclusion
  BY IInvInvariant, PTL DEF IInv

-----------------------------------------------------------------------------
(***************************************************************************)
(* Linearizability.  Under IInv the content of a held pointer is the       *)
(* private value of its only holder, so the effect of each step on Content *)
(* can be read off p.                                                      *)
(***************************************************************************)
ContentFacts ==
  /\ Content = [l \in Ptr |-> Content[l]]
  /\ \A l \in Ptr : p[l] # ATOMIC_NULL => Content[l] = p[l]
  /\ \A l \in Ptr, t \in Thread : Holds(t, l) => Content[l] = Private(t)

LEMMA ContentOf == IInv => ContentFacts
<1>. SUFFICES ASSUME IInv PROVE ContentFacts
  OBVIOUS
<1>1. ASSUME NEW l \in Ptr, NEW t \in Thread, Holds(t, l)
      PROVE  Content[l] = Private(t)
  <2>1. p[l] = ATOMIC_NULL
    BY <1>1 DEF IInv, MutualExclusion
  <2>2. (CHOOSE u \in Thread : Holds(u, l)) = t
    BY <1>1 DEF IInv, MutualExclusion
  <2>. QED
    BY <2>1, <2>2 DEF Content
<1>2. ASSUME NEW l \in Ptr, p[l] # ATOMIC_NULL PROVE Content[l] = p[l]
  BY <1>2 DEF Content
<1>3. Content = [l \in Ptr |-> Content[l]]
  <2>. DEFINE F(l) == IF p[l] # ATOMIC_NULL THEN p[l]
                      ELSE Private(CHOOSE t \in Thread : Holds(t, l))
  <2>1. Content = [l \in Ptr |-> F(l)]
    BY DEF Content
  <2>. HIDE DEF F
  <2>. QED
    BY <2>1
<1>. QED
  BY <1>1, <1>2, <1>3 DEF ContentFacts

LEMMA ContentOfNext == IInv' => ContentFacts'
  BY ContentOf, PTL

\* A pointer whose word, holder and holder's value a step leaves alone keeps
\* its content.
SamePtr(l) ==
  /\ p'[l] = p[l]
  /\ \A u \in Thread : Holds(u, l)' <=> Holds(u, l)
  /\ \A u \in Thread : Holds(u, l) => Private(u)' = Private(u)

LEMMA ContentElsewhere ==
  ASSUME IInv, IInv', NEW l \in Ptr, SamePtr(l)
  PROVE  Content'[l] = Content[l]
<1>1. ContentFacts /\ ContentFacts'
  BY ContentOf, ContentOfNext
<1>2. CASE p[l] # ATOMIC_NULL
  BY <1>1, <1>2 DEF ContentFacts, SamePtr
<1>3. CASE p[l] = ATOMIC_NULL
  <2>1. PICK u \in Thread : Holds(u, l)
    BY <1>3 DEF IInv, MutualExclusion
  <2>. QED
    BY <1>1, <2>1 DEF ContentFacts, SamePtr
<1>. QED
  BY <1>2, <1>3

LEMMA ContentUnchanged ==
  ASSUME IInv, IInv', \A l \in Ptr : SamePtr(l)
  PROVE  Content' = Content
<1>1. \A l \in Ptr : Content'[l] = Content[l]
  BY ContentElsewhere
<1>. QED
  BY <1>1 DEF Content

\* A pointer that does not hold the sentinel is not checked out by a caller.
LEMMA NotCheckedOut ==
  ASSUME IInv, NEW l \in Ptr, p[l] # ATOMIC_NULL
  PROVE  l \notin Cells!CheckedOut
<1>. SUFFICES ASSUME NEW u \in Thread, Phase[u] = "held" PROVE op[u].first # l
  BY DEF Cells!CheckedOut
<1>. QED
  BY DEF Phase, PhaseOf, IInv, MutualExclusion, Holds

\* How a step of thread t shows in Phase.
LEMMA PhaseStep ==
  ASSUME IInv, NEW t \in Thread, NEW to, Goto(t, to)
  PROVE  Phase' = [Phase EXCEPT ![t] = PhaseOf(to)]
  BY DEF Goto, Phase, IInv, TypeOK

\* Every step of the code is a step of AtomicCells or invisible there.
LEMMA StepImplements ==
  ASSUME IInv, IInv', [Next]_vars
  PROVE  [Cells!Next]_(Cells!vars)
<1>. USE DEF IInv, TypeOK
<1>a. ContentFacts /\ ContentFacts'
  BY ContentOf, ContentOfNext
<1>b. \A t \in Thread : pc[t] # "idle" => op[t].first \in Ptr /\ op[t].last \in Ptr
  BY CallsTyped DEF CallState, Operation
<1>1. ASSUME NEW t \in Thread, Call(t) PROVE Cells!Call(t)
  <2>1. \A l \in Ptr : SamePtr(l)
    BY <1>1 DEF Call, Goto, SamePtr, Holds, Private
  <2>2. Content' = Content
    BY <2>1, ContentUnchanged
  <2>3. Phase' = [Phase EXCEPT ![t] = "called"] /\ Phase[t] = "idle"
    BY <1>1, PhaseStep DEF Call, PhaseOf, Phase
  <2>. QED
    BY <1>1, <2>2, <2>3 DEF Call, Cells!Call, Cells!Move
<1>2. ASSUME NEW t \in Thread, LoadFirst(t)
      PROVE  Cells!Access(t) \/ UNCHANGED Cells!vars
  <2>1. \A l \in Ptr : SamePtr(l)
    BY <1>2 DEF LoadFirst, Goto, Finish, SamePtr, Holds, Private
  <2>2. Content' = Content
    BY <2>1, ContentUnchanged
  <2>3. CASE op[t].kind \in GetKinds
    <3>1. Phase' = [Phase EXCEPT ![t] = "idle"] /\ Phase[t] = "called"
      BY <1>2, <2>3, PhaseStep DEF LoadFirst, Finish, PhaseOf, Phase
    <3>2. op[t].first \notin Cells!CheckedOut
      BY <1>2, <1>b, NotCheckedOut DEF LoadFirst
    <3>3. res' = [res EXCEPT ![t] = Content[op[t].first]]
      BY <1>2, <1>a, <1>b, <2>3 DEF LoadFirst, Finish, ContentFacts
    <3>. QED
      BY <1>2, <2>2, <2>3, <3>1, <3>2, <3>3
      DEF LoadFirst, Cells!Access, Cells!Move, GetKinds
  <2>4. CASE op[t].kind \notin GetKinds
    <3>1. Phase' = [Phase EXCEPT ![t] = "called"] /\ Phase[t] = "called"
      BY <1>2, <2>4, PhaseStep DEF LoadFirst, PhaseOf, Phase
    <3>2. Phase' = Phase
      BY <3>1 DEF Phase
    <3>. QED
      BY <1>2, <2>2, <2>4, <3>2 DEF LoadFirst, Cells!vars
  <2>. QED
    BY <2>3, <2>4
<1>3. ASSUME NEW t \in Thread, TryLoadFirstFails(t) PROVE Cells!Fail(t)
  <2>1. \A l \in Ptr : SamePtr(l)
    BY <1>3 DEF TryLoadFirstFails, Goto, Finish, SamePtr, Holds, Private
  <2>2. Content' = Content
    BY <2>1, ContentUnchanged
  <2>3. Phase' = [Phase EXCEPT ![t] = "idle"] /\ Phase[t] = "called"
    BY <1>3, PhaseStep DEF TryLoadFirstFails, Finish, PhaseOf, Phase
  <2>. QED
    BY <1>3, <2>2, <2>3
    DEF TryLoadFirstFails, Finish, Cells!Fail, Cells!Move, TryKinds, Cells!TryKinds
<1>4. ASSUME NEW t \in Thread, CasFirst(t)
      PROVE  Cells!Access(t) \/ Cells!Checkout(t) \/ UNCHANGED Cells!vars
  <2>0. PICK l \in Ptr : l = op[t].first
    BY <1>4, <1>b DEF CasFirst
  <2>1. /\ l \in Ptr /\ p[l] = val[t] /\ val[t] \in Val /\ p[l] # ATOMIC_NULL
        /\ Content[l] = val[t]
    BY <1>4, <2>0, <1>a, <1>b, ValAssumption DEF CasFirst, CallState, ContentFacts
  <2>2. l \notin Cells!CheckedOut
    BY <2>1, NotCheckedOut
  <2>3. \A m \in Ptr \ {l} : SamePtr(m)
    BY <1>4, <2>0 DEF CasFirst, Write, Goto, Finish, SamePtr, Holds, Private
  <2>4. \A m \in Ptr \ {l} : Content'[m] = Content[m]
    BY <2>3, ContentElsewhere
  <2>5. op[t] \in Calls /\ op[t].kind \notin GetKinds /\ Phase[t] = "called"
    BY <1>4, <2>0 DEF CasFirst, CallState, Phase, PhaseOf
  <2>6. CASE op[t].kind \in SetKinds
    <3>1. Phase' = [Phase EXCEPT ![t] = "idle"] /\ res' = [res EXCEPT ![t] = val[t]]
      BY <1>4, <2>0, <2>6, PhaseStep
      DEF CasFirst, Finish, PhaseOf, SetKinds, CheckoutKinds, SwapKinds
    <3>2. op[t].x \in Val /\ p'[l] = op[t].x
      BY <1>4, <2>0, <2>1, <2>5, <2>6, CallsTyped DEF CasFirst, Write
    <3>3. Content'[l] = op[t].x
      <4>1. p'[l] # ATOMIC_NULL
        BY <3>2, ValAssumption
      <4>. QED
        BY <1>a, <2>1, <3>2, <4>1 DEF ContentFacts
    <3>4. Content' = [Content EXCEPT ![l] = op[t].x]
      BY <1>a, <2>1, <2>4, <3>3 DEF ContentFacts
    <3>. QED
      BY <1>4, <2>0, <2>1, <2>2, <2>5, <2>6, <3>1, <3>4
      DEF CasFirst, Cells!Access, Cells!Move, SetKinds
  <2>7. CASE op[t].kind \notin SetKinds
    <3>1. Holds(t, l)' /\ Private(t)' = val[t]
      BY <1>4, <2>0, <2>7
      DEF CasFirst, Finish, Goto, Holds, Private, SetKinds, CheckoutKinds, SwapKinds
    <3>2. Content'[l] = Content[l]
      BY <1>a, <2>1, <3>1 DEF ContentFacts
    <3>3. Content' = Content
      BY <1>a, <2>4, <3>2 DEF ContentFacts
    <3>4. CASE op[t].kind \in CheckoutKinds
      <4>1. Phase' = [Phase EXCEPT ![t] = "held"] /\ res' = [res EXCEPT ![t] = val[t]]
        BY <1>4, <2>0, <3>4, PhaseStep
        DEF CasFirst, Finish, PhaseOf, SetKinds, CheckoutKinds, SwapKinds
      <4>. QED
        BY <1>4, <2>0, <2>1, <2>2, <2>5, <3>3, <3>4, <4>1
        DEF CasFirst, Cells!Checkout, Cells!Move, CheckoutKinds
    <3>5. CASE op[t].kind \notin CheckoutKinds
      <4>1. Phase' = [Phase EXCEPT ![t] = "called"] /\ res' = res
        BY <1>4, <2>0, <2>7, <3>5, PhaseStep DEF CasFirst, PhaseOf
      <4>2. Phase' = Phase
        BY <2>5, <4>1 DEF Phase
      <4>. QED
        BY <1>4, <2>0, <3>3, <4>1, <4>2 DEF CasFirst, Cells!vars
    <3>. QED
      BY <3>4, <3>5
  <2>. QED
    BY <2>6, <2>7
<1>5. ASSUME NEW t \in Thread, CasFirstFails(t)
      PROVE  Cells!Fail(t) \/ UNCHANGED Cells!vars
  <2>1. \A l \in Ptr : SamePtr(l)
    BY <1>5 DEF CasFirstFails, Goto, Finish, SamePtr, Holds, Private
  <2>2. Content' = Content
    BY <2>1, ContentUnchanged
  <2>3. Phase[t] = "called"
    BY <1>5 DEF CasFirstFails, PhaseOf, Phase
  <2>4. CASE op[t].kind \in TryKinds
    <3>1. Phase' = [Phase EXCEPT ![t] = "idle"]
      BY <1>5, <2>4, PhaseStep DEF CasFirstFails, Finish, PhaseOf
    <3>. QED
      BY <1>5, <2>2, <2>3, <2>4, <3>1
      DEF CasFirstFails, Finish, Cells!Fail, Cells!Move, TryKinds, Cells!TryKinds
  <2>5. CASE op[t].kind \notin TryKinds
    <3>1. Phase' = [Phase EXCEPT ![t] = "called"]
      BY <1>5, <2>5, PhaseStep DEF CasFirstFails, PhaseOf
    <3>2. Phase' = Phase
      BY <2>3, <3>1 DEF Phase
    <3>. QED
      BY <1>5, <2>2, <2>5, <3>2 DEF CasFirstFails, Cells!vars
  <2>. QED
    BY <2>4, <2>5
<1>6. ASSUME NEW t \in Thread, LoadLast(t) PROVE UNCHANGED Cells!vars
  <2>1. \A l \in Ptr : SamePtr(l)
    BY <1>6 DEF LoadLast, Goto, SamePtr, Holds, Private
  <2>2. Content' = Content
    BY <2>1, ContentUnchanged
  <2>3. Phase' = [Phase EXCEPT ![t] = "called"] /\ Phase[t] = "called"
    BY <1>6, PhaseStep DEF LoadLast, PhaseOf, Phase
  <2>4. Phase' = Phase
    BY <2>3 DEF Phase
  <2>. QED
    BY <1>6, <2>2, <2>4 DEF LoadLast, Cells!vars
<1>7. ASSUME NEW t \in Thread, TryLoadLastFails(t) PROVE Cells!Fail(t)
  <2>1. \A l \in Ptr : SamePtr(l)
    BY <1>7 DEF TryLoadLastFails, Goto, Finish, SamePtr, Holds, Private
  <2>2. Content' = Content
    BY <2>1, ContentUnchanged
  <2>3. Phase' = [Phase EXCEPT ![t] = "finished"] /\ Phase[t] = "called"
    BY <1>7, PhaseStep DEF TryLoadLastFails, Finish, PhaseOf, Phase
  <2>. QED
    BY <1>7, <2>2, <2>3
    DEF TryLoadLastFails, Finish, Cells!Fail, Cells!Move, TryKinds, Cells!TryKinds
<1>8. ASSUME NEW t \in Thread, CasLast(t) PROVE Cells!Swap(t)
  <2>0. PICK l \in Ptr, m \in Ptr : l = op[t].first /\ m = op[t].last
    BY <1>8, <1>b DEF CasLast
  <2>1. /\ l \in Ptr /\ m \in Ptr /\ p[m] = val[t] /\ val[t] \in Val
        /\ p[m] # ATOMIC_NULL /\ valFirst[t] \in Val /\ op[t].kind \in SwapKinds
    BY <1>8, <2>0, <1>b, ValAssumption DEF CasLast, CallState
  <2>2. Holds(t, l) /\ p[l] = ATOMIC_NULL /\ l # m
    BY <1>8, <2>0, <2>1 DEF CasLast, Holds, MutualExclusion
  <2>3. Content[l] = valFirst[t] /\ Content[m] = val[t]
    <3>1. Private(t) = valFirst[t]
      BY <1>8, <2>0 DEF CasLast, Private
    <3>. QED
      BY <1>a, <2>1, <2>2, <3>1 DEF ContentFacts
  <2>4. p'[m] = valFirst[t] /\ p'[m] # ATOMIC_NULL
    BY <1>8, <2>0, <2>1, ValAssumption DEF CasLast, Write
  <2>5. Holds(t, l)' /\ Private(t)' = val[t]
    BY <1>8, <2>0 DEF CasLast, Finish, Goto, Holds, Private
  <2>6. Content'[l] = val[t] /\ Content'[m] = valFirst[t]
    BY <1>a, <2>1, <2>4, <2>5 DEF ContentFacts
  <2>7. \A k \in Ptr \ {l, m} : SamePtr(k)
    BY <1>8, <2>0 DEF CasLast, Write, Goto, Finish, SamePtr, Holds, Private
  <2>8. \A k \in Ptr \ {l, m} : Content'[k] = Content[k]
    BY <2>7, ContentElsewhere
  <2>9. Content' = [Content EXCEPT ![l] = Content[m], ![m] = Content[l]]
    BY <1>a, <2>1, <2>2, <2>3, <2>6, <2>8 DEF ContentFacts
  <2>10. {l, m} \cap Cells!CheckedOut = {}
    <3>1. m \notin Cells!CheckedOut
      BY <2>1, NotCheckedOut
    <3>2. l \notin Cells!CheckedOut
      <4>. SUFFICES ASSUME NEW u \in Thread, Phase[u] = "held" PROVE op[u].first # l
        BY <2>0 DEF Cells!CheckedOut
      <4>1. pc[u] = "held" /\ u # t
        BY <1>8, <2>0 DEF Phase, PhaseOf, CasLast
      <4>. QED
        BY <2>0, <2>1, <2>2, <4>1 DEF Holds, MutualExclusion
    <3>. QED
      BY <3>1, <3>2
  <2>11. Phase' = [Phase EXCEPT ![t] = "finished"] /\ Phase[t] = "called"
    BY <1>8, <2>0, PhaseStep DEF CasLast, Finish, PhaseOf, Phase
  <2>. QED
    BY <1>8, <2>0, <2>1, <2>9, <2>10, <2>11
    DEF CasLast, Finish, Cells!Swap, Cells!Move, SwapKinds
<1>9. ASSUME NEW t \in Thread, CasLastFails(t)
      PROVE  Cells!Fail(t) \/ UNCHANGED Cells!vars
  <2>1. \A l \in Ptr : SamePtr(l)
    BY <1>9 DEF CasLastFails, Goto, Finish, SamePtr, Holds, Private
  <2>2. Content' = Content
    BY <2>1, ContentUnchanged
  <2>3. Phase[t] = "called"
    BY <1>9 DEF CasLastFails, PhaseOf, Phase
  <2>4. CASE op[t].kind \in TryKinds
    <3>1. Phase' = [Phase EXCEPT ![t] = "finished"]
      BY <1>9, <2>4, PhaseStep DEF CasLastFails, Finish, PhaseOf
    <3>. QED
      BY <1>9, <2>2, <2>3, <2>4, <3>1
      DEF CasLastFails, Finish, Cells!Fail, Cells!Move, TryKinds, Cells!TryKinds
  <2>5. CASE op[t].kind \notin TryKinds
    <3>1. Phase' = [Phase EXCEPT ![t] = "called"]
      BY <1>9, <2>5, PhaseStep DEF CasLastFails, PhaseOf
    <3>2. Phase' = Phase
      BY <2>3, <3>1 DEF Phase
    <3>. QED
      BY <1>9, <2>2, <2>5, <3>2 DEF CasLastFails, Cells!vars
  <2>. QED
    BY <2>4, <2>5
<1>10. ASSUME NEW t \in Thread, Checkin(t) PROVE Cells!Return(t)
  <2>0. PICK l \in Ptr : l = op[t].first
    BY <1>10, <1>b DEF Checkin
  <2>1. l \in Ptr /\ Holds(t, l) /\ Private(t) \in Val
    BY <1>10, <2>0 DEF Checkin, Holds, Private, CallState
  <2>2. p'[l] = Private(t) /\ p'[l] # ATOMIC_NULL
    BY <1>10, <2>0, <2>1, ValAssumption DEF Checkin, Write, Private
  <2>3. Content'[l] = Content[l]
    BY <1>a, <2>1, <2>2 DEF ContentFacts
  <2>4. \A k \in Ptr \ {l} : SamePtr(k)
    BY <1>10, <2>0 DEF Checkin, Write, Goto, SamePtr, Holds, Private
  <2>5. \A k \in Ptr \ {l} : Content'[k] = Content[k]
    BY <2>4, ContentElsewhere
  <2>6. Content' = Content
    BY <1>a, <2>3, <2>5 DEF ContentFacts
  <2>7. Phase' = [Phase EXCEPT ![t] = "idle"] /\ Phase[t] = "finished"
    BY <1>10, <2>0, PhaseStep DEF Checkin, PhaseOf, Phase
  <2>. QED
    BY <1>10, <2>0, <2>6, <2>7 DEF Checkin, Cells!Return, Cells!Move
<1>11. ASSUME NEW t \in Thread, CallerCheckin(t) PROVE Cells!Checkin(t)
  <2>0. PICK l \in Ptr : l = op[t].first
    BY <1>11, <1>b DEF CallerCheckin
  <2>1. l \in Ptr
    BY <1>11, <1>b DEF CallerCheckin
  <2>2. PICK x \in Val : p'[l] = x /\ p' = [p EXCEPT ![l] = x]
    BY <1>11, <2>0, <2>1 DEF CallerCheckin, Write
  <2>3. Content'[l] = x
    <3>1. p'[l] # ATOMIC_NULL
      BY <2>2, ValAssumption
    <3>. QED
      BY <1>a, <2>1, <2>2, <3>1 DEF ContentFacts
  <2>4. \A k \in Ptr \ {l} : SamePtr(k)
    BY <1>11, <2>0, <2>2 DEF CallerCheckin, Goto, SamePtr, Holds, Private
  <2>5. \A k \in Ptr \ {l} : Content'[k] = Content[k]
    BY <2>4, ContentElsewhere
  <2>6. Content' = [Content EXCEPT ![l] = x]
    BY <1>a, <2>1, <2>3, <2>5 DEF ContentFacts
  <2>7. Phase' = [Phase EXCEPT ![t] = "idle"] /\ Phase[t] = "held"
    BY <1>11, <2>0, PhaseStep DEF CallerCheckin, PhaseOf, Phase
  <2>. QED
    BY <1>11, <2>0, <2>6, <2>7 DEF CallerCheckin, Cells!Checkin, Cells!Move
<1>12. CASE UNCHANGED vars
  <2>1. \A l \in Ptr : SamePtr(l)
    BY <1>12 DEF vars, SamePtr, Holds, Private
  <2>2. Content' = Content
    BY <2>1, ContentUnchanged
  <2>. QED
    BY <1>12, <2>2 DEF vars, Cells!vars, Phase
<1>. QED
  BY <1>1, <1>2, <1>3, <1>4, <1>5, <1>6, <1>7, <1>8, <1>9, <1>10, <1>11, <1>12
  DEF Next, Step, Terminated, Cells!Next

LEMMA InitImplements == Init => Cells!Init
<1>. SUFFICES ASSUME Init PROVE Cells!Init
  OBVIOUS
<1>1. Content = Start
  BY ValAssumption, StartAssumption DEF Init, Content
<1>2. Phase = [t \in Thread |-> "idle"]
  BY DEF Init, Phase, PhaseOf
<1>. QED
  BY <1>1, <1>2 DEF Init, Cells!Init

\* "swap pointers atomically" (AtomicPtr.h:225) and every other call: for any
\* threads, pointers and values the CAS-level code implements AtomicCells.
THEOREM LinearizableCorrect == Spec => Linearizable
  BY InitImplements, StepImplements, IInvInvariant, PTL
  DEF Spec, Linearizable, Cells!Spec
=============================================================================
