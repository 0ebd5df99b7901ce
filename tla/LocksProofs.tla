----------------------------- MODULE LocksProofs ----------------------------
(***************************************************************************)
(* Proofs about the Python binding's locks for every set of threads and    *)
(* objects and every depth of the stacks.  LocksStayNative speaks of the   *)
(* running frame of each thread, and a return uncovers the frame below, so *)
(* the inductive invariant LocksInv speaks of all of them: whatever the    *)
(* stack, at most one frame of one thread is inside the gate, and only     *)
(* with the gate in hand (GateInv); with the seal set no frame is on its   *)
(* way to swap the provider (SealedInv); whoever runs native code and is   *)
(* not waiting to attach has the GIL (GilInv); and a lock is held by a     *)
(* thread's running frame, never by one that waits for a callback          *)
(* (HoldInv).  Every step changes the stack of one thread at its top, so   *)
(* that one lemma (Moves) carries the invariant over all of them.          *)
(***************************************************************************)
EXTENDS PythonLocks, SequenceTheorems, TLAPS

\* The operations of native frames, and what a frame is: a setter goes through
\* the gate for the provider only.
NativeOps == {"set", "use", "register", "seal", "batch"}
Frame ==
  {f \in [op : PythonOps \cup NativeOps, slot : Slots, pc : Labels,
          obj : Objects \cup {NoObject}] :
     f.op = "set" /\ f.pc \in {"gate", "check"} => f.slot = "provider"}

\* The frames from the gate's acquisition to its release.
Gated(f) ==
  /\ f.op \in {"set", "register", "seal"}
  /\ \/ f.pc \in {"check", "seal", "table_lock", "mutate", "ungate"}
     \/ f.pc \in {"lock", "swap"} /\ f.op = "set" /\ f.slot = "provider"

\* A thread's stack: the program at the bottom, and nowhere else.
Stack == {s \in Seq(Frame) :
            s # <<>> /\ \A i \in 1..Len(s) : s[i].op = "main" <=> i = 1}

\* The stacks and slots have their types.
StacksInv ==
  /\ stack \in [Threads -> Stack]
  /\ slot \in [Slots -> Objects \cup {NoObject}]
  /\ slotLock \in [Slots -> Threads \cup {NoThread}]

\* Native code that runs has the GIL.
GilInv ==
  \A t \in Threads : ~InPython(t) /\ Top(t).pc # "attach" => gil = t

\* The gate's holder has one frame inside it, and nobody else has any.
GateInv ==
  \A t \in Threads : \A i \in 1..Len(stack[t]) :
    Gated(stack[t][i]) =>
      /\ gate = t
      /\ \A j \in 1..Len(stack[t]) : Gated(stack[t][j]) => i = j

\* Once sealed, no frame is past the check of the seal on its way to the
\* provider's slot.
SealedInv ==
  sealed =>
    \A t \in Threads : \A i \in 1..Len(stack[t]) :
      ~(/\ stack[t][i].op = "set" /\ stack[t][i].slot = "provider"
        /\ stack[t][i].pc \in {"lock", "swap"})

\* Until a lock is poisoned, a lock is held by the frame that runs, at the
\* labels between its acquisition and its release.
HoldInv ==
  poisoned \/
    \A t \in Threads :
      /\ gate = t => Gated(Top(t))
      /\ tableLock = t => Top(t).op = "register" /\ Top(t).pc = "mutate"
      /\ \A s \in Slots : slotLock[s] = t =>
           Top(t).op = "set" /\ Top(t).pc = "swap" /\ Top(t).slot = s

\* The inductive invariant.
LocksInv == StacksInv /\ GilInv /\ GateInv /\ SealedInv /\ HoldInv

\* All frames but the running one.
LEMMA StackFront ==
  ASSUME NEW s \in Seq(Frame), s # <<>>
  PROVE  /\ Front(s) \in Seq(Frame) /\ Len(Front(s)) = Len(s) - 1
         /\ \A i \in 1..(Len(s) - 1) : Front(s)[i] = s[i]
<1>1. Len(s) \in Nat \ {0} /\ \A i \in 1..Len(s) : s[i] \in Frame
  OBVIOUS
<1> DEFINE m == 1  n == Len(s) - 1
<1>2. m \in Int /\ n \in Int /\ \A i \in m..n : s[i] \in Frame
  BY <1>1
<1> HIDE DEF m, n
<1>3. /\ SubSeq(s, m, n) \in Seq(Frame)
      /\ Len(SubSeq(s, m, n)) = IF m <= n THEN n - m + 1 ELSE 0
      /\ \A i \in 1..(n - m + 1) : SubSeq(s, m, n)[i] = s[m + i - 1]
  BY <1>2, SubSeqProperties
<1>4. Front(s) = SubSeq(s, m, n)
  BY DEF Front, m, n
<1>5. m = 1 /\ n = Len(s) - 1
  BY DEF m, n
<1> DEFINE r == SubSeq(s, m, n)
<1> HIDE DEF r
<1>6. /\ r \in Seq(Frame) /\ Len(r) = Len(s) - 1
      /\ \A i \in 1..(Len(s) - 1) : r[i] = s[i]
  <2>1. r \in Seq(Frame) /\ Len(r) = Len(s) - 1
    BY <1>1, <1>3, <1>5 DEF r
  <2>2. ASSUME NEW i \in 1..(Len(s) - 1) PROVE r[i] = s[i]
    <3>1. i \in 1..(n - m + 1) /\ m + i - 1 = i
      BY <1>1, <1>5
    <3> QED
      BY <1>3, <3>1 DEF r
  <2> QED
    BY <2>1, <2>2
<1> QED
  BY <1>4, <1>6 DEF r

\* Another frame in the place of the running one: the rest of the stack is as
\* it was.
LEMMA StackPut ==
  ASSUME NEW s \in Stack, NEW f \in Frame, f.op = "main" <=> Last(s).op = "main"
  PROVE  LET r == Append(Front(s), f) IN
         /\ r \in Stack /\ Len(r) = Len(s) /\ Last(r) = f
         /\ \A i \in 1..Len(s) : r[i] = IF i = Len(s) THEN f ELSE s[i]
<1> DEFINE r == Append(Front(s), f)
<1>1. s \in Seq(Frame) /\ s # <<>> /\ Len(s) \in Nat \ {0}
  BY DEF Stack
<1>2. /\ Front(s) \in Seq(Frame) /\ Len(Front(s)) = Len(s) - 1
      /\ \A i \in 1..(Len(s) - 1) : Front(s)[i] = s[i]
  BY <1>1, StackFront
<1>3. /\ r \in Seq(Frame) /\ Len(r) = Len(s)
      /\ \A i \in 1..Len(s) : r[i] = IF i = Len(s) THEN f ELSE s[i]
  BY <1>1, <1>2
<1>4. Last(s) = s[Len(s)] /\ Last(r) = r[Len(r)]
  BY DEF Last
<1> HIDE DEF r
<1>5. r # <<>> /\ Last(r) = f
  BY <1>1, <1>3, <1>4
<1>6. \A i \in 1..Len(r) : r[i].op = "main" <=> i = 1
  BY <1>1, <1>3, <1>4 DEF Stack
<1> QED
  BY <1>1, <1>3, <1>4, <1>5, <1>6 DEF Stack, r

\* Another frame in its place and one above it.
LEMMA StackPush ==
  ASSUME NEW s \in Stack, NEW f \in Frame, NEW g \in Frame, f.op = "main" <=> Last(s).op = "main",
         g.op # "main"
  PROVE  LET r == Append(Append(Front(s), f), g) IN
         /\ r \in Stack /\ Len(r) = Len(s) + 1 /\ Last(r) = g
         /\ \A i \in 1..Len(r) : /\ i < Len(s) => r[i] = s[i]
                                 /\ i = Len(s) => r[i] = f
                                 /\ i > Len(s) => r[i] = g
<1> DEFINE p == Append(Front(s), f)
<1>1. p \in Stack /\ Len(p) = Len(s) /\ \A i \in 1..Len(s) : p[i] = IF i = Len(s) THEN f ELSE s[i]
  BY StackPut
<1> HIDE DEF p
<1>2. p \in Seq(Frame) /\ Len(s) \in Nat \ {0}
  BY <1>1 DEF Stack
<1> DEFINE r == Append(p, g)
<1>3. /\ r \in Seq(Frame) /\ Len(r) = Len(p) + 1
      /\ \A i \in 1..Len(r) : r[i] = IF i = Len(p) + 1 THEN g ELSE p[i]
  BY <1>2
<1>4. Last(r) = r[Len(r)]
  BY DEF Last
<1> HIDE DEF r
<1>5. r # <<>> /\ \A i \in 1..Len(r) : r[i].op = "main" <=> i = 1
  BY <1>1, <1>2, <1>3 DEF Stack
<1>6. r \in Stack /\ Len(r) = Len(s) + 1 /\ Last(r) = g
  BY <1>1, <1>2, <1>3, <1>4, <1>5 DEF Stack
<1>7. \A i \in 1..Len(r) : /\ i < Len(s) => r[i] = s[i]
                           /\ i = Len(s) => r[i] = f
                           /\ i > Len(s) => r[i] = g
  BY <1>1, <1>2, <1>3
<1> QED
  BY <1>6, <1>7 DEF r, p

\* The running frame goes: the rest is as it was, and never empty.
LEMMA StackPop ==
  ASSUME NEW s \in Stack, Last(s).op # "main"
  PROVE  /\ Front(s) \in Stack /\ Len(Front(s)) = Len(s) - 1
         /\ \A i \in 1..Len(Front(s)) : Front(s)[i] = s[i]
<1>1. s \in Seq(Frame) /\ s # <<>> /\ Len(s) \in Nat \ {0} /\ Last(s) = s[Len(s)]
  BY DEF Stack, Last
<1>2. Len(s) # 1
  BY <1>1 DEF Stack
<1>3. /\ Front(s) \in Seq(Frame) /\ Len(Front(s)) = Len(s) - 1
      /\ \A i \in 1..(Len(s) - 1) : Front(s)[i] = s[i]
  BY <1>1, StackFront
<1> DEFINE r == Front(s)
<1> HIDE DEF r
<1> QED
  BY <1>1, <1>2, <1>3 DEF Stack, r

\* One thread's stack changes at its top: its running frame becomes f, or goes,
\* and frames outside the gate may come above it.
TopMoves(t, f) ==
  /\ stack' \in [Threads -> Stack]
  /\ \A u \in Threads \ {t} : stack'[u] = stack[u] /\ Top(u)' = Top(u)
  /\ \A i \in 1..Len(stack'[t]) :
       /\ i < Len(stack[t]) => stack'[t][i] = stack[t][i]
       /\ i = Len(stack[t]) => stack'[t][i] = f
       /\ i > Len(stack[t]) => ~Gated(stack'[t][i])

\* The running frame is the last one, and a frame.
LEMMA TopFrame ==
  ASSUME StacksInv, NEW t \in Threads
  PROVE  /\ stack[t] \in Stack /\ Len(stack[t]) \in Nat \ {0}
         /\ Top(t) = stack[t][Len(stack[t])] /\ Top(t) = Last(stack[t]) /\ Top(t) \in Frame
<1>1. stack[t] \in Stack
  BY DEF StacksInv
<1>2. stack[t] \in Seq(Frame) /\ stack[t] # <<>>
  BY <1>1 DEF Stack
<1>3. Len(stack[t]) \in Nat \ {0} /\ stack[t][Len(stack[t])] \in Frame
  BY <1>2
<1> QED
  BY <1>1, <1>3 DEF Top, Last

\* SetTop changes one stack, at its top.
LEMMA PutStep ==
  ASSUME StacksInv, NEW t \in Threads, NEW f \in Frame, SetTop(t, f), f.op = Top(t).op
  PROVE  TopMoves(t, f) /\ Top(t)' = f
<1> DEFINE r == Append(Front(stack[t]), f)
<1>1. stack[t] \in Stack /\ Last(stack[t]).op = f.op
  BY TopFrame
<1>2. /\ r \in Stack /\ Len(r) = Len(stack[t]) /\ Last(r) = f
      /\ \A i \in 1..Len(stack[t]) : r[i] = IF i = Len(stack[t]) THEN f ELSE stack[t][i]
  BY <1>1, StackPut
<1>3. stack' = [stack EXCEPT ![t] = r]
  BY DEF SetTop
<1> HIDE DEF r
<1>4. /\ stack' \in [Threads -> Stack] /\ stack'[t] = r
      /\ \A u \in Threads \ {t} : stack'[u] = stack[u]
  BY <1>2, <1>3 DEF StacksInv
<1>5. Len(stack[t]) \in Nat
  BY TopFrame
<1> QED
  BY <1>2, <1>4, <1>5 DEF TopMoves, Top

\* So does a call.
LEMMA PushStep ==
  ASSUME StacksInv, NEW t \in Threads, NEW f \in Frame, NEW g \in Frame, f.op = "main" <=>
         Top(t).op = "main",
         g.op # "main", ~Gated(g),
         stack' = [stack EXCEPT ![t] = Append(Append(Front(@), f), g)]
  PROVE  TopMoves(t, f) /\ Top(t)' = g
<1> DEFINE s == stack[t]  r == Append(Append(Front(s), f), g)
<1>1. s \in Stack /\ (f.op = "main" <=> Last(s).op = "main")
  BY TopFrame
<1> HIDE DEF s
<1>2. /\ r \in Stack /\ Len(r) = Len(s) + 1 /\ Last(r) = g
      /\ \A i \in 1..Len(r) : /\ i < Len(s) => r[i] = s[i]
                              /\ i = Len(s) => r[i] = f
                              /\ i > Len(s) => r[i] = g
  BY <1>1, StackPush
<1>3. stack' = [stack EXCEPT ![t] = r]
  BY DEF s
<1> HIDE DEF r
<1>4. /\ stack' \in [Threads -> Stack] /\ stack'[t] = r
      /\ \A u \in Threads \ {t} : stack'[u] = stack[u]
  BY <1>2, <1>3 DEF StacksInv
<1> QED
  BY <1>2, <1>4 DEF TopMoves, Top, s

\* So does a return, whatever the frame is called that is not there any more.
LEMMA PopStep ==
  ASSUME StacksInv, NEW t \in Threads, Pop(t), Top(t).op # "main"
  PROVE  \A f : TopMoves(t, f)
<1> DEFINE r == Front(stack[t])
<1>1. stack[t] \in Stack /\ Last(stack[t]).op # "main"
  BY TopFrame
<1>2. /\ r \in Stack /\ Len(r) = Len(stack[t]) - 1
      /\ \A i \in 1..Len(r) : r[i] = stack[t][i]
  BY <1>1, StackPop
<1>3. stack' = [stack EXCEPT ![t] = r]
  BY DEF Pop
<1> HIDE DEF r
<1>4. /\ stack' \in [Threads -> Stack] /\ stack'[t] = r
      /\ \A u \in Threads \ {t} : stack'[u] = stack[u]
  BY <1>2, <1>3 DEF StacksInv
<1>5. Len(stack[t]) \in Nat
  BY TopFrame
<1>6. \A i \in 1..Len(r) : i < Len(stack[t])
  BY <1>2, <1>5
<1> QED
  BY <1>2, <1>4, <1>5, <1>6 DEF TopMoves, Top

\* The gate follows the frame that was inside it.
LEMMA GateMoves ==
  ASSUME LocksInv, NEW t \in Threads, NEW f, TopMoves(t, f),
         Gated(f) => gate' = t /\ (gate = NoThread \/ Gated(Top(t))),
         ~Gated(f) => gate' = gate \/ (gate' = NoThread /\ Gated(Top(t)))
  PROVE  GateInv'
<1> SUFFICES ASSUME NEW u \in Threads, NEW i \in 1..Len(stack'[u]), Gated(stack'[u][i])
             PROVE  /\ gate' = u
                    /\ \A j \in 1..Len(stack'[u]) : Gated(stack'[u][j]) => i = j
  BY DEF GateInv
<1>1. Len(stack[t]) \in Nat \ {0} /\ Top(t) = stack[t][Len(stack[t])]
  BY TopFrame DEF LocksInv
<1> USE PythonLocksAssumption DEF LocksInv, GateInv, TopMoves
<1>2. CASE u # t
  BY <1>1, <1>2
<1>3. CASE u = t
  <2>1. Len(stack'[t]) \in Nat
    BY DEF Stack
  <2>2. CASE i < Len(stack[t])
    BY <1>1, <1>3, <2>1, <2>2
  <2>3. CASE i = Len(stack[t])
    BY <1>1, <1>3, <2>1, <2>3
  <2> QED
    BY <1>1, <1>3, <2>1, <2>2, <2>3
<1> QED
  BY <1>2, <1>3

\* Whoever moves has the GIL, or takes it from nobody.
LEMMA GilMoves ==
  ASSUME LocksInv, NEW t \in Threads, NEW f, TopMoves(t, f), gil \in {t, NoThread}, gil' = t
  PROVE  GilInv'
BY PythonLocksAssumption DEF LocksInv, GilInv, TopMoves, InPython

\* A sealed process has no frame on its way to swap the provider: one that seals
\* it has the gate, so no other frame is inside.
LEMMA SealedMoves ==
  ASSUME LocksInv, NEW t \in Threads, NEW f, TopMoves(t, f),
         sealed' => sealed \/ Gated(Top(t)),
         sealed' => ~(f.op = "set" /\ f.slot = "provider" /\ f.pc \in {"lock", "swap"})
  PROVE  SealedInv'
<1> SUFFICES ASSUME sealed', NEW u \in Threads, NEW i \in 1..Len(stack'[u])
             PROVE  ~(/\ stack'[u][i].op = "set" /\ stack'[u][i].slot = "provider"
                      /\ stack'[u][i].pc \in {"lock", "swap"})
  BY DEF SealedInv
<1>1. Len(stack[t]) \in Nat \ {0} /\ Top(t) = stack[t][Len(stack[t])]
  BY TopFrame DEF LocksInv
<1>2. ASSUME NEW j \in 1..Len(stack[u]), u = t => j < Len(stack[t])
      PROVE  ~(/\ stack[u][j].op = "set" /\ stack[u][j].slot = "provider"
               /\ stack[u][j].pc \in {"lock", "swap"})
  <2>1. CASE sealed
    BY <2>1 DEF LocksInv, SealedInv
  <2>2. CASE Gated(Top(t))
    <3> DEFINE last == Len(stack[t])
    <3>1. Top(t) = stack[t][last] /\ last \in 1..last
      BY <1>1
    <3>2. GateInv
      BY DEF LocksInv
    <3>3. u # t => ~Gated(stack[u][j])
      BY <2>2, <3>1, <3>2 DEF GateInv
    <3>4. u = t => ~Gated(stack[u][j])
      BY <1>2, <2>2, <3>1, <3>2 DEF GateInv
    <3>5. ~Gated(stack[u][j])
      BY <3>3, <3>4
    <3> QED
      BY <3>5 DEF Gated
  <2> QED
    BY <2>1, <2>2
<1>3. CASE u # t
  BY <1>2, <1>3 DEF TopMoves
<1>4. CASE u = t
  <2>1. Len(stack'[t]) \in Nat
    BY DEF Stack, TopMoves
  <2>2. CASE i < Len(stack[t])
    BY <1>1, <1>2, <1>4, <2>1, <2>2 DEF TopMoves
  <2>3. CASE i >= Len(stack[t])
    BY <1>1, <1>4, <2>1, <2>3 DEF TopMoves, Gated
  <2> QED
    BY <1>1, <1>4, <2>1, <2>2, <2>3
<1> QED
  BY <1>3, <1>4

\* Nobody comes to hold a lock but the one who moves, and only where it may.
LEMMA HoldMoves ==
  ASSUME LocksInv, NEW t \in Threads, NEW f, TopMoves(t, f), poisoned => poisoned',
         gate' \in {gate, t, NoThread}, tableLock' \in {tableLock, t, NoThread},
         \A s \in Slots : slotLock'[s] \in {slotLock[s], t, NoThread},
         ~poisoned' =>
           /\ gate' = t => Gated(Top(t)')
           /\ tableLock' = t => Top(t)'.op = "register" /\ Top(t)'.pc = "mutate"
           /\ \A s \in Slots : slotLock'[s] = t =>
                Top(t)'.op = "set" /\ Top(t)'.pc = "swap" /\ Top(t)'.slot = s
  PROVE  HoldInv'
BY PythonLocksAssumption DEF LocksInv, HoldInv, TopMoves

\* What a step that leaves f in the running frame's place may do to the rest: the
\* gate goes with f and is let go of by the frame that has it, the seal is set by
\* such a frame and never leaves f on its way to the slot, and t alone takes
\* locks, for the frame that then runs.
Allowed(t, f) ==
  /\ slot' \in [Slots -> Objects \cup {NoObject}]
  /\ slotLock' \in [Slots -> Threads \cup {NoThread}]
  /\ Gated(f) => gate' = t /\ (gate = NoThread \/ Gated(Top(t)))
  /\ ~Gated(f) => gate' = gate \/ (gate' = NoThread /\ Gated(Top(t)))
  /\ sealed' => sealed \/ Gated(Top(t))
  /\ sealed' => ~(f.op = "set" /\ f.slot = "provider" /\ f.pc \in {"lock", "swap"})
  /\ poisoned => poisoned'
  /\ tableLock' \in {tableLock, t, NoThread}
  /\ \A s \in Slots : slotLock'[s] \in {slotLock[s], t, NoThread}
  /\ ~poisoned' =>
       /\ gate' = t => Gated(Top(t)')
       /\ tableLock' = t => Top(t)'.op = "register" /\ Top(t)'.pc = "mutate"
       /\ \A s \in Slots : slotLock'[s] = t =>
            Top(t)'.op = "set" /\ Top(t)'.pc = "swap" /\ Top(t)'.slot = s

\* Such a step keeps the invariant, if whoever runs native code has the GIL.
LEMMA Moves ==
  ASSUME LocksInv, NEW t \in Threads, NEW f, TopMoves(t, f), Allowed(t, f), GilInv'
  PROVE  LocksInv'
<1>1. StacksInv'
  BY DEF StacksInv, TopMoves, Allowed
<1>2. GateInv'
  BY GateMoves DEF Allowed
<1>3. SealedInv'
  BY SealedMoves DEF Allowed
<1>4. gate' \in {gate, t, NoThread}
  BY DEF Allowed
<1>5. HoldInv'
  BY <1>4, HoldMoves DEF Allowed
<1> QED
  BY <1>1, <1>2, <1>3, <1>5 DEF LocksInv

\* What the invariants say of the frame that moves: it is inside the gate only
\* with the gate in hand, and it alone holds what its thread holds.
LEMMA TopKnown ==
  ASSUME LocksInv, NEW t \in Threads
  PROVE  /\ Top(t) \in Frame /\ StacksInv
         /\ t # NoThread
         /\ Gated(Top(t)) => gate = t
         /\ sealed => ~(/\ Top(t).op = "set" /\ Top(t).slot = "provider"
                        /\ Top(t).pc \in {"lock", "swap"})
         /\ ~poisoned =>
              /\ gate = t => Gated(Top(t))
              /\ tableLock = t => Top(t).op = "register" /\ Top(t).pc = "mutate"
              /\ \A s \in Slots : slotLock[s] = t =>
                   Top(t).op = "set" /\ Top(t).pc = "swap" /\ Top(t).slot = s
BY TopFrame, PythonLocksAssumption DEF LocksInv, GateInv, SealedInv, HoldInv

\* Every step keeps the invariant.
LEMMA LocksNext == LocksInv /\ [Next]_vars => LocksInv'
<1> SUFFICES ASSUME LocksInv, [Next]_vars PROVE LocksInv'
  OBVIOUS
<1>1. ASSUME NEW t \in Threads, TakeGate(t) PROVE LocksInv'
  <2> DEFINE f == [Top(t) EXCEPT !.pc = AfterGate(Top(t).op)]
  <2>1. Top(t) \in Frame /\ StacksInv
    BY TopKnown
  <2>2. f \in Frame /\ f.op = Top(t).op /\ f.slot = Top(t).slot /\ f.pc \in {"check", "seal"}
    BY <1>1, <2>1 DEF TakeGate, At, Goto, AfterGate, Frame, Labels, StacksInv
  <2>3. TopMoves(t, f) /\ Top(t)' = f
    <3>1. SetTop(t, f)
      BY <1>1 DEF TakeGate, At, Goto, AfterGate
    <3> QED
      BY <2>1, <2>2, <3>1, PutStep
  <2> HIDE DEF f
  <2>4. Allowed(t, f)
    BY <1>1, <2>1, <2>2, <2>3, TopKnown DEF TakeGate, At, Goto, AfterGate, Allowed, StacksInv,
       Frame, Gated
  <2> QED
    BY <1>1, <2>3, <2>4, GilMoves, Moves DEF TakeGate, At, Goto, AfterGate
<1>2. ASSUME NEW t \in Threads, CheckSeal(t), sealed PROVE LocksInv'
  <2> DEFINE f == PythonFrame("spent")
  <2>1. Top(t) \in Frame /\ StacksInv
    BY TopKnown
  <2>2. ~Gated(f) /\ f.op = "spent"
    BY DEF PythonFrame, Gated
  <2>3. TopMoves(t, f)
    <3>1. Pop(t) /\ Top(t).op # "main"
      BY <1>2 DEF CheckSeal, At
    <3> QED
      BY <2>1, <3>1, PopStep
  <2> HIDE DEF f
  <2>4. Allowed(t, f)
    BY <1>2, <2>1, <2>2, <2>3, TopKnown DEF CheckSeal, At, Allowed, StacksInv, Frame, Gated
  <2> QED
    BY <1>2, <2>3, <2>4, GilMoves, Moves DEF CheckSeal, At
<1>3. ASSUME NEW t \in Threads, CheckSeal(t), ~sealed PROVE LocksInv'
  <2> DEFINE f == [Top(t) EXCEPT !.pc = IF Top(t).op = "set" THEN "lock" ELSE "table_lock"]
  <2>1. Top(t) \in Frame /\ StacksInv
    BY TopKnown
  <2>2. /\ f \in Frame /\ f.op = Top(t).op /\ f.slot = Top(t).slot
        /\ f.pc \in {"lock", "table_lock"} /\ (f.pc = "lock" <=> f.op = "set")
    BY <1>3, <2>1 DEF CheckSeal, At, Goto, Frame, Labels, StacksInv
  <2>3. TopMoves(t, f) /\ Top(t)' = f
    <3>1. SetTop(t, f)
      BY <1>3 DEF CheckSeal, At, Goto
    <3> QED
      BY <2>1, <2>2, <3>1, PutStep
  <2> HIDE DEF f
  <2>4. Allowed(t, f)
    BY <1>3, <2>1, <2>2, <2>3, TopKnown DEF CheckSeal, At, Goto, Allowed, StacksInv, Frame, Gated
  <2> QED
    BY <1>3, <2>3, <2>4, GilMoves, Moves DEF CheckSeal, At, Goto
<1>4. ASSUME NEW t \in Threads, Seal(t) PROVE LocksInv'
  <2> DEFINE f == [Top(t) EXCEPT !.pc = "ungate"]
  <2>1. Top(t) \in Frame /\ StacksInv
    BY TopKnown
  <2>2. f \in Frame /\ f.op = Top(t).op /\ f.slot = Top(t).slot /\ f.pc = "ungate"
    BY <1>4, <2>1 DEF Seal, At, Goto, Frame, Labels, StacksInv
  <2>3. TopMoves(t, f) /\ Top(t)' = f
    <3>1. SetTop(t, f)
      BY <1>4 DEF Seal, At, Goto
    <3> QED
      BY <2>1, <2>2, <3>1, PutStep
  <2> HIDE DEF f
  <2>4. Allowed(t, f)
    BY <1>4, <2>1, <2>2, <2>3, TopKnown DEF Seal, At, Goto, Allowed, StacksInv, Frame, Gated
  <2> QED
    BY <1>4, <2>3, <2>4, GilMoves, Moves DEF Seal, At, Goto
<1>5. ASSUME NEW t \in Threads, Ungate(t), Top(t).op = "set" PROVE LocksInv'
  <2> DEFINE f == [Top(t) EXCEPT !.pc = "drop"]
  <2>1. Top(t) \in Frame /\ StacksInv
    BY TopKnown
  <2>2. f \in Frame /\ f.op = Top(t).op /\ f.slot = Top(t).slot /\ f.pc = "drop"
    BY <1>5, <2>1 DEF Ungate, At, Goto, Frame, Labels, StacksInv
  <2>3. TopMoves(t, f) /\ Top(t)' = f
    <3>1. SetTop(t, f)
      BY <1>5 DEF Ungate, At, Goto
    <3> QED
      BY <2>1, <2>2, <3>1, PutStep
  <2> HIDE DEF f
  <2>4. Allowed(t, f)
    BY <1>5, <2>1, <2>2, <2>3, TopKnown DEF Ungate, At, Goto, Allowed, StacksInv, Frame, Gated
  <2> QED
    BY <1>5, <2>3, <2>4, GilMoves, Moves DEF Ungate, At, Goto
<1>6. ASSUME NEW t \in Threads, Ungate(t), Top(t).op # "set" PROVE LocksInv'
  <2> DEFINE f == PythonFrame("spent")
  <2>1. Top(t) \in Frame /\ StacksInv
    BY TopKnown
  <2>2. ~Gated(f) /\ f.op = "spent"
    BY DEF PythonFrame, Gated
  <2>3. TopMoves(t, f)
    <3>1. Pop(t) /\ Top(t).op # "main"
      BY <1>6 DEF Ungate, At
    <3> QED
      BY <2>1, <3>1, PopStep
  <2> HIDE DEF f
  <2>4. Allowed(t, f)
    BY <1>6, <2>1, <2>2, <2>3, TopKnown DEF Ungate, At, Allowed, StacksInv, Frame, Gated
  <2> QED
    BY <1>6, <2>3, <2>4, GilMoves, Moves DEF Ungate, At
<1>7. ASSUME NEW t \in Threads, LockSlot(t) PROVE LocksInv'
  <2> DEFINE f == [Top(t) EXCEPT !.pc = "swap"]
  <2>1. Top(t) \in Frame /\ StacksInv
    BY TopKnown
  <2>2. f \in Frame /\ f.op = Top(t).op /\ f.slot = Top(t).slot /\ f.pc = "swap"
    BY <1>7, <2>1 DEF LockSlot, At, Goto, Frame, Labels, StacksInv
  <2>3. TopMoves(t, f) /\ Top(t)' = f
    <3>1. SetTop(t, f)
      BY <1>7 DEF LockSlot, At, Goto
    <3> QED
      BY <2>1, <2>2, <3>1, PutStep
  <2> HIDE DEF f
  <2>4. Allowed(t, f)
    BY <1>7, <2>1, <2>2, <2>3, TopKnown DEF LockSlot, At, Goto, Allowed, StacksInv, Frame, Gated
  <2> QED
    BY <1>7, <2>3, <2>4, GilMoves, Moves DEF LockSlot, At, Goto
<1>8. ASSUME NEW t \in Threads, Swap(t) PROVE LocksInv'
  <2> DEFINE f == [Top(t) EXCEPT !.obj = slot[Top(t).slot],
                                 !.pc = IF Top(t).slot = "provider" THEN "ungate" ELSE "drop"]
  <2>1. Top(t) \in Frame /\ StacksInv
    BY TopKnown
  <2>2. /\ f \in Frame /\ f.op = Top(t).op /\ f.slot = Top(t).slot
        /\ f.pc = (IF f.slot = "provider" THEN "ungate" ELSE "drop")
    BY <1>8, <2>1 DEF Swap, At, Goto, Frame, Labels, StacksInv
  <2>3. TopMoves(t, f) /\ Top(t)' = f
    <3>1. SetTop(t, f)
      BY <1>8 DEF Swap, At, Goto
    <3> QED
      BY <2>1, <2>2, <3>1, PutStep
  <2> HIDE DEF f
  <2>4. Allowed(t, f)
    BY <1>8, <2>1, <2>2, <2>3, TopKnown DEF Swap, At, Goto, Allowed, StacksInv, Frame, Gated
  <2> QED
    BY <1>8, <2>3, <2>4, GilMoves, Moves DEF Swap, At, Goto
<1>9. ASSUME NEW t \in Threads, Return(t) PROVE LocksInv'
  <2> DEFINE f == PythonFrame("spent")
  <2>1. Top(t) \in Frame /\ StacksInv
    BY TopKnown
  <2>2. ~Gated(f) /\ f.op = "spent"
    BY DEF PythonFrame, Gated
  <2>3. TopMoves(t, f)
    <3>1. Pop(t) /\ Top(t).op # "main"
      BY <1>9 DEF Return, At
    <3> QED
      BY <2>1, <3>1, PopStep
  <2> HIDE DEF f
  <2>4. Allowed(t, f)
    BY <1>9, <2>1, <2>2, <2>3, TopKnown DEF Return, At, Allowed, StacksInv, Frame, Gated
  <2> QED
    BY <1>9, <2>3, <2>4, GilMoves, Moves DEF Return, At
<1>10. ASSUME NEW t \in Threads, ReadSlot(t) PROVE LocksInv'
  <2> DEFINE f == [Top(t) EXCEPT !.obj = slot[Top(t).slot],
                                 !.pc = IF slot[Top(t).slot] = NoObject THEN "return" ELSE "call"]
  <2>1. Top(t) \in Frame /\ StacksInv
    BY TopKnown
  <2>2. f \in Frame /\ f.op = Top(t).op /\ f.slot = Top(t).slot /\ f.pc \in {"return", "call"}
    BY <1>10, <2>1 DEF ReadSlot, At, Goto, Frame, Labels, StacksInv
  <2>3. TopMoves(t, f) /\ Top(t)' = f
    <3>1. SetTop(t, f)
      BY <1>10 DEF ReadSlot, At, Goto
    <3> QED
      BY <2>1, <2>2, <3>1, PutStep
  <2> HIDE DEF f
  <2>4. Allowed(t, f)
    BY <1>10, <2>1, <2>2, <2>3, TopKnown DEF ReadSlot, At, Goto, Allowed, StacksInv, Frame, Gated
  <2> QED
    BY <1>10, <2>3, <2>4, GilMoves, Moves DEF ReadSlot, At, Goto
<1>11. ASSUME NEW t \in Threads, Mutate(t) PROVE LocksInv'
  <2> DEFINE f == [Top(t) EXCEPT !.pc = "ungate"]
  <2>1. Top(t) \in Frame /\ StacksInv
    BY TopKnown
  <2>2. f \in Frame /\ f.op = Top(t).op /\ f.slot = Top(t).slot /\ f.pc = "ungate"
    BY <1>11, <2>1 DEF Mutate, At, Goto, Frame, Labels, StacksInv
  <2>3. TopMoves(t, f) /\ Top(t)' = f
    <3>1. SetTop(t, f)
      BY <1>11 DEF Mutate, At, Goto
    <3> QED
      BY <2>1, <2>2, <3>1, PutStep
  <2> HIDE DEF f
  <2>4. Allowed(t, f)
    BY <1>11, <2>1, <2>2, <2>3, TopKnown DEF Mutate, At, Goto, Allowed, StacksInv, Frame, Gated
  <2> QED
    BY <1>11, <2>3, <2>4, GilMoves, Moves DEF Mutate, At, Goto
<1>12. ASSUME NEW t \in Threads, MutatePanics(t) PROVE LocksInv'
  <2> DEFINE f == PythonFrame("spent")
  <2>1. Top(t) \in Frame /\ StacksInv
    BY TopKnown
  <2>2. ~Gated(f) /\ f.op = "spent"
    BY DEF PythonFrame, Gated
  <2>3. TopMoves(t, f)
    <3>1. Pop(t) /\ Top(t).op # "main"
      BY <1>12 DEF MutatePanics, At
    <3> QED
      BY <2>1, <3>1, PopStep
  <2> HIDE DEF f
  <2>4. Allowed(t, f)
    BY <1>12, <2>1, <2>2, <2>3, TopKnown DEF MutatePanics, At, Allowed, StacksInv, Frame, Gated
  <2> QED
    BY <1>12, <2>3, <2>4, GilMoves, Moves DEF MutatePanics, At
<1>13. ASSUME NEW t \in Threads, LockTable(t), ~poisoned PROVE LocksInv'
  <2> DEFINE f == [Top(t) EXCEPT !.pc = "mutate"]
  <2>1. Top(t) \in Frame /\ StacksInv
    BY TopKnown
  <2>2. f \in Frame /\ f.op = Top(t).op /\ f.slot = Top(t).slot /\ f.pc = "mutate"
    BY <1>13, <2>1 DEF LockTable, At, Goto, Frame, Labels, StacksInv
  <2>3. TopMoves(t, f) /\ Top(t)' = f
    <3>1. SetTop(t, f)
      BY <1>13 DEF LockTable, At, Goto
    <3> QED
      BY <2>1, <2>2, <3>1, PutStep
  <2> HIDE DEF f
  <2>4. Allowed(t, f)
    BY <1>13, <2>1, <2>2, <2>3, TopKnown DEF LockTable, At, Goto, Allowed, StacksInv, Frame, Gated
  <2> QED
    BY <1>13, <2>3, <2>4, GilMoves, Moves DEF LockTable, At, Goto
<1>14. ASSUME NEW t \in Threads, ReturnToNative(t) PROVE LocksInv'
  <2> DEFINE f == PythonFrame("spent")
  <2>1. Top(t) \in Frame /\ StacksInv
    BY TopKnown
  <2>2. ~Gated(f) /\ f.op = "spent"
    BY DEF PythonFrame, Gated
  <2>3. TopMoves(t, f)
    <3>1. Pop(t) /\ Top(t).op # "main"
      BY <1>14 DEF ReturnToNative, At, InPython, PythonOps
    <3> QED
      BY <2>1, <3>1, PopStep
  <2> HIDE DEF f
  <2>4. Allowed(t, f)
    BY <1>14, <2>1, <2>2, <2>3, TopKnown DEF ReturnToNative, At, InPython, PythonOps, Allowed,
       StacksInv, Frame, Gated
  <2> QED
    BY <1>14, <2>3, <2>4, GilMoves, Moves DEF ReturnToNative, At, InPython, PythonOps
<1>15. ASSUME NEW t \in Threads, CallObject(t) PROVE LocksInv'
  <2> DEFINE f == [Top(t) EXCEPT !.pc = "drop"]
          g == PythonFrame("callback")
  <2>1. Top(t) \in Frame /\ StacksInv /\ Top(t) = Last(stack[t])
    BY TopKnown, TopFrame
  <2>2. /\ f \in Frame /\ f.op = Top(t).op /\ f.pc = "drop"
        /\ g \in Frame /\ g.op = "callback" /\ ~Gated(g)
    BY <1>15, <2>1 DEF CallObject, At, Frame, Labels, PythonFrame, PythonOps, Slots, Gated
  <2>3. TopMoves(t, f) /\ Top(t)' = g
    <3>1. stack' = [stack EXCEPT ![t] = Append(Append(Front(@), f), g)]
      BY <1>15, <2>1 DEF CallObject, At, CallPython, Goto
    <3> QED
      BY <2>1, <2>2, <3>1, PushStep
  <2> HIDE DEF f, g
  <2>4. Allowed(t, f)
    BY <1>15, <2>1, <2>2, <2>3, TopKnown DEF CallObject, At, Allowed, StacksInv, Frame, Gated
  <2> QED
    BY <1>15, <2>3, <2>4, GilMoves, Moves DEF CallObject, At
<1>16. ASSUME NEW t \in Threads, LockTable(t), poisoned PROVE LocksInv'
  <2> DEFINE f == [Top(t) EXCEPT !.pc = "mutate"]
          g == PythonFrame("callback")
  <2>1. Top(t) \in Frame /\ StacksInv /\ Top(t) = Last(stack[t])
    BY TopKnown, TopFrame
  <2>2. /\ f \in Frame /\ f.op = Top(t).op /\ f.pc = "mutate"
        /\ g \in Frame /\ g.op = "callback" /\ ~Gated(g)
    BY <1>16, <2>1 DEF LockTable, At, Frame, Labels, PythonFrame, PythonOps, Slots, Gated
  <2>3. TopMoves(t, f) /\ Top(t)' = g
    <3>1. stack' = [stack EXCEPT ![t] = Append(Append(Front(@), f), g)]
      BY <1>16, <2>1 DEF LockTable, At, CallPython, Goto
    <3> QED
      BY <2>1, <2>2, <3>1, PushStep
  <2> HIDE DEF f, g
  <2>4. Allowed(t, f)
    BY <1>16, <2>1, <2>2, <2>3, TopKnown DEF LockTable, At, Allowed, StacksInv, Frame, Gated
  <2> QED
    BY <1>16, <2>3, <2>4, GilMoves, Moves DEF LockTable, At
<1>17. ASSUME NEW t \in Threads, Drop(t) PROVE LocksInv'
  <2> DEFINE f == [Top(t) EXCEPT !.obj = NoObject, !.pc = "return"]
             g == PythonFrame("callback")
  <2>1. Top(t) \in Frame /\ StacksInv /\ stack[t] \in Stack
    BY TopKnown, TopFrame
  <2>2. /\ f \in Frame /\ f.op = Top(t).op /\ f.pc = "return"
        /\ g \in Frame /\ g.op = "callback" /\ ~Gated(f) /\ ~Gated(g)
    BY <1>17, <2>1 DEF Drop, At, Frame, Labels, PythonFrame, PythonOps, Slots, Gated
  <2>3. TopMoves(t, f) /\ Top(t)' \in {f, g}
    <3>1. CASE SetTop(t, f)
      BY <2>1, <2>2, <3>1, PutStep
    <3>2. CASE stack' = [stack EXCEPT ![t] = Front(@) \o <<f, g>>]
      <4>1. Front(stack[t]) \in Seq(Frame)
        BY <2>1, StackFront DEF Stack
      <4>2. Front(stack[t]) \o <<f, g>> = Append(Append(Front(stack[t]), f), g)
        <5> DEFINE r == Front(stack[t])
        <5> HIDE DEF r, f, g
        <5>1. r \o <<f, g>> = Append(Append(r, f), g)
          BY <2>2, <4>1 DEF r
        <5> QED
          BY <5>1 DEF r
      <4> QED
        BY <2>1, <2>2, <3>2, <4>2, PushStep
    <3> QED
      BY <1>17, <3>1, <3>2 DEF Drop
  <2> HIDE DEF f, g
  <2>4. Allowed(t, f)
    BY <1>17, <2>1, <2>2, <2>3, TopKnown DEF Drop, At, Allowed, StacksInv, Frame, Gated
  <2> QED
    BY <1>17, <2>3, <2>4, GilMoves, Moves DEF Drop, At
<1>18. ASSUME NEW t \in Threads, Call(t) PROVE LocksInv'
  <2> DEFINE f == IF Top(t).op = "main" THEN Top(t) ELSE PythonFrame("spent")
  <2>1. Top(t) \in Frame /\ StacksInv /\ Top(t).op \in {"main", "callback"}
    BY <1>18, TopKnown DEF Call
  <2>2. PICK c \in Calls : \E o \in Arguments(c) :
          stack' = [stack EXCEPT ![t] = Append(Append(Front(@), f),
                     [op |-> c.op, slot |-> c.slot, pc |-> FirstLabel(c), obj |-> o])]
    BY <1>18 DEF Call
  <2>9. PICK o \in Arguments(c) :
          stack' = [stack EXCEPT ![t] = Append(Append(Front(@), f),
                     [op |-> c.op, slot |-> c.slot, pc |-> FirstLabel(c), obj |-> o])]
    BY <2>2
  <2> DEFINE g == [op |-> c.op, slot |-> c.slot, pc |-> FirstLabel(c), obj |-> o]
  <2>3. /\ f \in Frame /\ f.op \in {"main", "spent"} /\ (f.op = "main" <=> Top(t).op = "main")
        /\ ~Gated(f) /\ ~Gated(Top(t))
    BY <2>1 DEF Frame, PythonFrame, PythonOps, Labels, Slots, Gated
  <2>4. g \in Frame /\ g.op # "main" /\ ~Gated(g)
    <3>1. o \in Objects \cup {NoObject}
      BY DEF Arguments
    <3>2. /\ c.op \in NativeOps /\ c.slot \in Slots
          /\ c.op = "set" => FirstLabel(c) = (IF c.slot = "provider" THEN "gate" ELSE "lock")
          /\ c.op # "set" => FirstLabel(c) \in {"gate", "read", "detach"}
      BY DEF Calls, SetCalls, UseCalls, OtherCalls, Slots, NativeOps, FirstLabel
    <3> QED
      BY <3>1, <3>2 DEF Frame, Labels, Gated, Slots, NativeOps
  <2>5. TopMoves(t, f) /\ Top(t)' = g
    BY <2>1, <2>9, <2>3, <2>4, PushStep
  <2> HIDE DEF f, g
  <2>6. GilInv'
    BY <1>18, <2>5, GilMoves DEF Call
  <2>7. Allowed(t, f)
    BY <1>18, <2>1, <2>3, <2>5, TopKnown DEF Call, Allowed, StacksInv, Gated
  <2> QED
    BY <2>5, <2>6, <2>7, Moves
<1>19. ASSUME NEW t \in Threads, Attach(t) PROVE LocksInv'
  <2> DEFINE f == PythonFrame("spent")
  <2>1. Top(t) \in Frame /\ StacksInv
    BY TopKnown
  <2>2. ~Gated(f) /\ f.op = "spent"
    BY DEF PythonFrame, Gated
  <2>3. TopMoves(t, f)
    <3>1. Pop(t) /\ Top(t).op # "main"
      BY <1>19 DEF Attach, At
    <3> QED
      BY <2>1, <3>1, PopStep
  <2> HIDE DEF f
  <2>5. GilInv'
    BY <1>19, <2>3, GilMoves DEF Attach
  <2>4. Allowed(t, f)
    BY <1>19, <2>1, <2>2, <2>3, TopKnown DEF Attach, At, Allowed, StacksInv, Frame, Gated
  <2> QED
    BY <2>3, <2>4, <2>5, Moves
<1>20. ASSUME NEW t \in Threads, Detach(t) PROVE LocksInv'
  <2> DEFINE f == [Top(t) EXCEPT !.pc = "attach"]
  <2>1. Top(t) \in Frame /\ StacksInv
    BY TopKnown
  <2>2. f \in Frame /\ f.op = Top(t).op /\ f.slot = Top(t).slot /\ f.pc = "attach"
    BY <1>20, <2>1 DEF Detach, At, Goto, Frame, Labels, StacksInv
  <2>3. TopMoves(t, f) /\ Top(t)' = f
    <3>1. SetTop(t, f)
      BY <1>20 DEF Detach, At, Goto
    <3> QED
      BY <2>1, <2>2, <3>1, PutStep
  <2>5. GilInv'
    BY <1>20, <2>2, <2>3, PythonLocksAssumption DEF Detach, At, GilInv, LocksInv, TopMoves, InPython
  <2> HIDE DEF f
  <2>4. Allowed(t, f)
    BY <1>20, <2>1, <2>2, <2>3, TopKnown DEF Detach, At, Goto, Allowed, StacksInv, Frame, Gated
  <2> QED
    BY <2>3, <2>4, <2>5, Moves
<1>21. ASSUME NEW t \in Threads, AcquireGil(t) PROVE LocksInv'
  <2>1. GilInv'
    BY <1>21, PythonLocksAssumption DEF AcquireGil, LocksInv, GilInv, InPython, Top
  <2> QED
    BY <1>21, <2>1 DEF AcquireGil, LocksInv, StacksInv, GateInv, SealedInv, HoldInv, Top
<1>22. ASSUME NEW t \in Threads, ReleaseGil(t) PROVE LocksInv'
  <2>1. GilInv'
    BY <1>22, PythonLocksAssumption DEF ReleaseGil, LocksInv, GilInv, InPython, Top
  <2> QED
    BY <1>22, <2>1 DEF ReleaseGil, LocksInv, StacksInv, GateInv, SealedInv, HoldInv, Top
<1>23. CASE UNCHANGED vars
  BY <1>23 DEF vars, LocksInv, StacksInv, GateInv, SealedInv, HoldInv, Top, GilInv, InPython
<1> QED
  BY <1>1, <1>2, <1>3, <1>4, <1>5, <1>6, <1>7, <1>8, <1>9, <1>10, <1>11, <1>12, <1>13, <1>14,
     <1>15, <1>16, <1>17, <1>18, <1>19, <1>20, <1>21, <1>22, <1>23 DEF Next, Native

\* In the initial state every thread runs its program, and no lock is held.
LEMMA LocksInit == Init => LocksInv
<1> SUFFICES ASSUME Init PROVE LocksInv
  OBVIOUS
<1>1. PythonFrame("main") \in Frame /\ ~Gated(PythonFrame("main"))
  BY DEF Frame, PythonFrame, PythonOps, Labels, Slots, Gated
<1> DEFINE m == PythonFrame("main")
<1>2. m.op = "main" /\ m.pc = "python"
  BY DEF PythonFrame
<1> HIDE DEF m
<1>3. /\ <<m>> \in Stack /\ Len(<<m>>) = 1 /\ <<m>>[1] = m
  BY <1>1, <1>2 DEF Stack, m
<1>4. \A t \in Threads : stack[t] = <<m>> /\ Top(t) = m
  BY <1>3 DEF Init, Top, Last, m
<1>5. StacksInv
  BY <1>3 DEF Init, StacksInv, m
<1>6. GilInv
  BY <1>2, <1>4 DEF GilInv, InPython, PythonOps
<1>7. \A t \in Threads : \A i \in 1..Len(stack[t]) : stack[t][i] = m
  BY <1>3, <1>4
<1>8. GateInv /\ SealedInv
  BY <1>1, <1>7 DEF GateInv, SealedInv, Init, m
<1>9. HoldInv
  BY PythonLocksAssumption DEF Init, HoldInv
<1> QED
  BY <1>5, <1>6, <1>8, <1>9 DEF LocksInv

\* A lock's holder runs native code that is not waiting to attach, so it has
\* the GIL.
LEMMA LocksImplies == LocksInv => LocksStayNative
<1> SUFFICES ASSUME LocksInv, ~poisoned, NEW t \in Threads, Holds(t)
             PROVE  ~InPython(t) /\ gil = t
  BY DEF LocksStayNative, NoPythonUnderLock, LocksUnderGil
<1>1. \/ Gated(Top(t))
      \/ Top(t).pc \in {"mutate", "swap"} /\ Top(t).op \in {"register", "set"}
  <2>1. CASE gate = t \/ tableLock = t
    BY <2>1, TopKnown
  <2>2. CASE \E s \in Slots : slotLock[s] = t
    BY <2>2, TopKnown
  <2> QED
    BY <2>1, <2>2 DEF Holds
<1>2. ~InPython(t) /\ Top(t).pc # "attach"
  BY <1>1 DEF Gated, InPython, PythonOps
<1> QED
  BY <1>2 DEF LocksInv, GilInv

\* Until a lock is poisoned, no Python code runs on a thread that holds a Rust
\* lock, and whoever holds one has the GIL (py/emoji.rs, py/transliterate.rs,
\* lib.rs), whatever the threads, the objects and the depth of the callbacks.
THEOREM LocksStayNativeAlways == Spec => []LocksStayNative
<1>1. Spec => []LocksInv
  BY LocksInit, LocksNext, PTL DEF Spec
<1> QED
  BY <1>1, LocksImplies, PTL

\* Only a swap changes a slot, and under the seal no frame is at the
\* provider's.
LEMMA SlotKept == LocksInv /\ [Next]_vars => [sealed => slot'["provider"] = slot["provider"]]_vars
<1> SUFFICES ASSUME LocksInv, Next, sealed PROVE slot'["provider"] = slot["provider"]
  BY DEF vars
<1>1. ASSUME NEW t \in Threads, Swap(t) PROVE slot'["provider"] = slot["provider"]
  <2>1. Top(t) \in Frame /\ StacksInv /\ Top(t).slot # "provider"
    BY <1>1, TopKnown DEF Swap, At
  <2> QED
    BY <1>1, <2>1 DEF Swap, StacksInv, Slots
<1>2. ASSUME NEW t \in Threads, ~Swap(t),
             \/ AcquireGil(t) \/ ReleaseGil(t) \/ Call(t) \/ ReturnToNative(t)
             \/ Native(t) \/ Attach(t)
      PROVE  slot' = slot
  BY <1>2 DEF AcquireGil, ReleaseGil, Call, ReturnToNative, Native, Attach, TakeGate, CheckSeal,
    Seal, Ungate, LockSlot, Drop, Return, ReadSlot, CallObject, LockTable, Mutate, MutatePanics,
    Detach
<1> QED
  BY <1>1, <1>2 DEF Next

\* Once sealed, the emoji provider never changes (_set_emoji_provider, #104),
\* whatever a callback calls from inside another call.
THEOREM ProviderStaysFrozen == Spec => ProviderFrozen
<1>1. Spec => []LocksInv
  BY LocksInit, LocksNext, PTL DEF Spec
<1> QED
  BY <1>1, SlotKept, PTL DEF Spec, ProviderFrozen
=============================================================================
