----------------------------- MODULE PythonLocks ----------------------------
(***************************************************************************)
(* The Python binding's locks and the GIL: the two slots that hold Python  *)
(* objects (the emoji provider and the transliterate dispatcher), the      *)
(* registration gate with the replacement table's lock behind it, and the  *)
(* Python code that native code calls into: lookup and the dispatcher,     *)
(* the __del__ of an object whose last reference goes, and warnings.warn   *)
(* when recover_lock meets a poisoned lock.  A native call keeps the GIL   *)
(* unless it detaches; Python code may give it up at any point.            *)
(*                                                                         *)
(*   gil, gate, slotLock, tableLock    their holders, or NoThread          *)
(*   slot           GLOBAL_PROVIDER and TRANSLITERATE_FALLBACK             *)
(*   sealed, poisoned    the seal; GLOBAL_REPLACEMENTS has been poisoned   *)
(*   stack          each thread's frames, the running one last: Python     *)
(*                  code at the bottom, then native calls and callbacks in *)
(*                  turn; obj is a reference the frame owns                *)
(***************************************************************************)
EXTENDS Integers, SequencesExt

CONSTANTS
  Threads, NoThread,
  Objects, NoObject,   \* providers and dispatchers; NoObject is None
  MayPanic,            \* whether a replacement mutation may panic
  MaxDepth             \* bound: frames on one stack

ASSUME PythonLocksAssumption ==
  /\ NoThread \notin Threads /\ NoObject \notin Objects
  /\ MayPanic \in BOOLEAN /\ MaxDepth \in Nat

VARIABLES gil, gate, slotLock, tableLock, slot, sealed, poisoned, stack

vars == <<gil, gate, slotLock, tableLock, slot, sealed, poisoned, stack>>

Slots == {"provider", "dispatcher"}

SetCalls == {[op |-> "set", slot |-> s] : s \in Slots}
UseCalls == {[op |-> "use", slot |-> s] : s \in Slots}
OtherCalls == {[op |-> o, slot |-> "provider"] : o \in {"register", "seal", "batch"}}
Calls == SetCalls \cup UseCalls \cup OtherCalls

\* Python frames: the program itself; a callback; one that has made its call.
PythonOps == {"main", "callback", "spent"}
PythonFrame(o) == [op |-> o, slot |-> "provider", pc |-> "python", obj |-> NoObject]

Labels == {"python", "gate", "check", "lock", "swap", "ungate", "drop", "return",
           "read", "call", "table_lock", "mutate", "seal", "detach", "attach"}

TypeOK ==
  /\ {gil, gate, tableLock} \subseteq Threads \cup {NoThread}
  /\ slotLock \in [Slots -> Threads \cup {NoThread}]
  /\ slot \in [Slots -> Objects \cup {NoObject}]
  /\ sealed \in BOOLEAN /\ poisoned \in BOOLEAN
  /\ \A t \in Threads :
       /\ Len(stack[t]) \in 1..(MaxDepth + 1)
       /\ \A i \in 1..Len(stack[t]) :
            /\ stack[t][i].pc \in Labels
            /\ stack[t][i].obj \in Objects \cup {NoObject}
            /\ (stack[t][i].op \in PythonOps) = (i % 2 = 1)

Init ==
  /\ gil = NoThread /\ gate = NoThread /\ tableLock = NoThread
  /\ slotLock = [s \in Slots |-> NoThread]
  /\ slot = [s \in Slots |-> NoObject]
  /\ sealed = FALSE /\ poisoned = FALSE
  /\ stack = [t \in Threads |-> <<PythonFrame("main")>>]

Top(t) == Last(stack[t])
InPython(t) == Top(t).op \in PythonOps

\* The running native frame of t is at `label` of one of `ops`, with the GIL.
At(t, ops, label) == gil = t /\ Top(t).op \in ops /\ Top(t).pc = label

SetTop(t, frame) == stack' = [stack EXCEPT ![t] = Append(Front(@), frame)]
Goto(t, label) == SetTop(t, [Top(t) EXCEPT !.pc = label])
Pop(t) == stack' = [stack EXCEPT ![t] = Front(@)]

\* The native frame goes on at `label` once the callback above it returns.
CallPython(t, label) ==
  stack' = [stack EXCEPT ![t] =
    Append(Append(Front(@), [Last(@) EXCEPT !.pc = label]), PythonFrame("callback"))]

\* An object lives while a slot or a frame has a reference to it.
Owned(o) ==
  \/ \E s \in Slots : slot[s] = o
  \/ \E t \in Threads : \E i \in 1..Len(stack[t]) : stack[t][i].obj = o

-----------------------------------------------------------------------------
(***************************************************************************)
(* Python code.                                                            *)
(***************************************************************************)
AcquireGil(t) ==
  /\ gil = NoThread
  /\ InPython(t)
  /\ gil' = t
  /\ UNCHANGED <<gate, slotLock, tableLock, slot, sealed, poisoned, stack>>

\* The switch interval, or a call that blocks.
ReleaseGil(t) ==
  /\ gil = t
  /\ InPython(t)
  /\ gil' = NoThread
  /\ UNCHANGED <<gate, slotLock, tableLock, slot, sealed, poisoned, stack>>

\* Mutant: the emoji setter takes no part in the seal (#104).
FirstLabelUngated(c) ==
  CASE c.op = "set" -> "lock"
    [] c.op = "use" -> "read"
    [] c.op = "batch" -> "detach"
    [] OTHER -> "gate"

FirstLabel(c) ==
  CASE c.op = "set" -> IF c.slot = "provider" THEN "gate" ELSE "lock"
    [] c.op = "use" -> "read"
    [] c.op = "batch" -> "detach"
    [] OTHER -> "gate"

\* A fresh object, or None to reset the provider, is what a setter is given.
Arguments(c) ==
  IF c.op # "set" THEN {NoObject}
  ELSE {o \in Objects : ~Owned(o)} \cup (IF c.slot = "provider" THEN {NoObject} ELSE {})

\* A callback makes one call at most, so that every callback comes to its end.
Call(t) ==
  /\ gil = t
  /\ Top(t).op \in {"main", "callback"}
  /\ Len(stack[t]) < MaxDepth
  /\ \E c \in Calls : \E o \in Arguments(c) :
       LET caller == IF Top(t).op = "main" THEN Top(t) ELSE PythonFrame("spent")
           callee == [op |-> c.op, slot |-> c.slot, pc |-> FirstLabel(c), obj |-> o]
       IN stack' = [stack EXCEPT ![t] = Append(Append(Front(@), caller), callee)]
  /\ UNCHANGED <<gil, gate, slotLock, tableLock, slot, sealed, poisoned>>

ReturnToNative(t) ==
  /\ gil = t
  /\ Top(t).op \in {"callback", "spent"}
  /\ Pop(t)
  /\ UNCHANGED <<gil, gate, slotLock, tableLock, slot, sealed, poisoned>>

-----------------------------------------------------------------------------
(***************************************************************************)
(* The gate: set_emoji_provider, the registration mutators, the seal.  A   *)
(* thread waits for it, as for every lock here, with the GIL in hand.      *)
(***************************************************************************)
AfterGate(op) == IF op = "seal" THEN "seal" ELSE "check"

TakeGate(t) ==
  /\ At(t, {"set", "register", "seal"}, "gate")
  /\ gate = NoThread
  /\ gate' = t
  /\ Goto(t, AfterGate(Top(t).op))
  /\ UNCHANGED <<gil, slotLock, tableLock, slot, sealed, poisoned>>

\* Sealed: the error lets the gate go, and the argument is the caller's again.
CheckSeal(t) ==
  /\ At(t, {"set", "register"}, "check")
  /\ IF sealed THEN Pop(t) /\ gate' = NoThread
     ELSE Goto(t, IF Top(t).op = "set" THEN "lock" ELSE "table_lock") /\ UNCHANGED gate
  /\ UNCHANGED <<gil, slotLock, tableLock, slot, sealed, poisoned>>

Seal(t) ==
  /\ At(t, {"seal"}, "seal")
  /\ sealed' = TRUE
  /\ Goto(t, "ungate")
  /\ UNCHANGED <<gil, gate, slotLock, tableLock, slot, poisoned>>

Ungate(t) ==
  /\ At(t, {"set", "register", "seal"}, "ungate")
  /\ gate' = NoThread
  /\ IF Top(t).op = "set" THEN Goto(t, "drop") ELSE Pop(t)
  /\ UNCHANGED <<gil, slotLock, tableLock, slot, sealed, poisoned>>

-----------------------------------------------------------------------------
\* swap_provider and _set_transliterate_fallback, and the drop of what they
\* swapped out.
LockSlot(t) ==
  LET s == Top(t).slot
  IN /\ At(t, {"set"}, "lock")
     /\ slotLock[s] = NoThread
     /\ slotLock' = [slotLock EXCEPT ![s] = t]
     /\ Goto(t, "swap")
     /\ UNCHANGED <<gil, gate, tableLock, slot, sealed, poisoned>>

\* Mutant: `*guard = new` drops the old object, and runs its __del__, under the
\* guard, which goes when the function returns.
SwapDropsUnderGuard(t) ==
  LET f == Top(t)
      old == slot[f.slot]
      next == IF f.slot = "provider" THEN "ungate" ELSE "drop"
  IN /\ At(t, {"set"}, "swap")
     /\ slot' = [slot EXCEPT ![f.slot] = f.obj]
     /\ IF old = NoObject
        THEN /\ SetTop(t, [f EXCEPT !.obj = NoObject, !.pc = next])
             /\ slotLock' = [slotLock EXCEPT ![f.slot] = NoThread]
        ELSE /\ stack' = [stack EXCEPT ![t] =
                  Front(@) \o <<[f EXCEPT !.obj = NoObject, !.pc = next],
                                PythonFrame("callback")>>]
             /\ UNCHANGED slotLock
     /\ UNCHANGED <<gil, gate, tableLock, sealed, poisoned>>

Swap(t) ==
  LET f == Top(t)
  IN /\ At(t, {"set"}, "swap")
     /\ slot' = [slot EXCEPT ![f.slot] = f.obj]
     /\ slotLock' = [slotLock EXCEPT ![f.slot] = NoThread]
     /\ SetTop(t, [f EXCEPT !.obj = slot[f.slot],
                            !.pc = IF f.slot = "provider" THEN "ungate" ELSE "drop"])
     /\ UNCHANGED <<gil, gate, tableLock, sealed, poisoned>>

\* A reference goes: with the last one, __del__ runs here and now.
Drop(t) ==
  LET o == Top(t).obj
      elsewhere == \/ \E s \in Slots : slot[s] = o
                   \/ \E u \in Threads : \E i \in 1..Len(stack[u]) :
                        stack[u][i].obj = o /\ <<u, i>> # <<t, Len(stack[t])>>
      frame == [Top(t) EXCEPT !.obj = NoObject, !.pc = "return"]
  IN /\ At(t, {"set", "use"}, "drop")
     /\ IF o = NoObject \/ elsewhere THEN SetTop(t, frame)
        ELSE stack' = [stack EXCEPT ![t] = Front(@) \o <<frame, PythonFrame("callback")>>]
     /\ UNCHANGED <<gil, gate, slotLock, tableLock, slot, sealed, poisoned>>

Return(t) ==
  /\ At(t, {"set", "use"}, "return")
  /\ Pop(t)
  /\ UNCHANGED <<gil, gate, slotLock, tableLock, slot, sealed, poisoned>>

-----------------------------------------------------------------------------
\* _demojize and _transliterate_entry: clone under the read guard, call outside
\* it.  An empty slot is the built-in table, or the "not registered" error.

\* Mutant: no clone; the read guard is held for the call.
ReadSlotKeepsGuard(t) ==
  LET f == Top(t)
  IN /\ At(t, {"use"}, "read")
     /\ slotLock[f.slot] = NoThread
     /\ SetTop(t, [f EXCEPT !.pc = IF slot[f.slot] = NoObject THEN "return" ELSE "call"])
     /\ slotLock' = [slotLock EXCEPT ![f.slot] = IF slot[f.slot] = NoObject THEN @ ELSE t]
     /\ UNCHANGED <<gil, gate, tableLock, slot, sealed, poisoned>>

ReadSlot(t) ==
  LET f == Top(t)
  IN /\ At(t, {"use"}, "read")
     /\ slotLock[f.slot] = NoThread
     /\ SetTop(t, [f EXCEPT !.obj = slot[f.slot],
                            !.pc = IF slot[f.slot] = NoObject THEN "return" ELSE "call"])
     /\ UNCHANGED <<gil, gate, slotLock, tableLock, slot, sealed, poisoned>>

CallObject(t) ==
  /\ At(t, {"use"}, "call")
  /\ CallPython(t, "drop")
  /\ UNCHANGED <<gil, gate, slotLock, tableLock, slot, sealed, poisoned>>

-----------------------------------------------------------------------------
\* The replacement mutators.  recover_lock warns with the guard in hand.
LockTable(t) ==
  /\ At(t, {"register"}, "table_lock")
  /\ tableLock = NoThread
  /\ tableLock' = t
  /\ IF poisoned THEN CallPython(t, "mutate") ELSE Goto(t, "mutate")
  /\ UNCHANGED <<gil, gate, slotLock, slot, sealed, poisoned>>

Mutate(t) ==
  /\ At(t, {"register"}, "mutate")
  /\ tableLock' = NoThread
  /\ Goto(t, "ungate")
  /\ UNCHANGED <<gil, gate, slotLock, slot, sealed, poisoned>>

\* The panic unwinds through both guards and becomes a Python exception.
MutatePanics(t) ==
  /\ At(t, {"register"}, "mutate")
  /\ MayPanic
  /\ poisoned' = TRUE
  /\ tableLock' = NoThread
  /\ gate' = NoThread
  /\ Pop(t)
  /\ UNCHANGED <<gil, slotLock, slot, sealed>>

-----------------------------------------------------------------------------
\* _transliterate_batch computes a chunk detached: its read guards are let go
\* of within the compute, and no lock it takes can be poisoned.
Detach(t) ==
  /\ At(t, {"batch"}, "detach")
  /\ gil' = NoThread
  /\ Goto(t, "attach")
  /\ UNCHANGED <<gate, slotLock, tableLock, slot, sealed, poisoned>>

Attach(t) ==
  /\ Top(t).op = "batch" /\ Top(t).pc = "attach"
  /\ gil = NoThread
  /\ gil' = t
  /\ Pop(t)
  /\ UNCHANGED <<gate, slotLock, tableLock, slot, sealed, poisoned>>

Native(t) ==
  \/ TakeGate(t) \/ CheckSeal(t) \/ Seal(t) \/ Ungate(t)
  \/ LockSlot(t) \/ Swap(t) \/ Drop(t) \/ Return(t)
  \/ ReadSlot(t) \/ CallObject(t)
  \/ LockTable(t) \/ Mutate(t) \/ MutatePanics(t)
  \/ Detach(t)

Next ==
  \E t \in Threads :
    \/ AcquireGil(t) \/ ReleaseGil(t) \/ Call(t) \/ ReturnToNative(t)
    \/ Native(t) \/ Attach(t)

Spec == Init /\ [][Next]_vars

\* Native code runs on; Python code gives the GIL up (CPython's switch interval
\* makes it), gets it again in its turn, and a callback returns in the end.
FairSpec ==
  /\ Spec
  /\ \A t \in Threads :
       /\ WF_vars(Native(t)) /\ SF_vars(ReleaseGil(t))
       /\ SF_vars(AcquireGil(t)) /\ SF_vars(Attach(t)) /\ SF_vars(ReturnToNative(t))

-----------------------------------------------------------------------------
Holds(t) == gate = t \/ tableLock = t \/ \E s \in Slots : slotLock[s] = t

\* Until a lock has been poisoned no Python code runs while its thread holds a
\* Rust lock: the gate, a slot's guard, or the table's.
NoPythonUnderLock == poisoned \/ \A t \in Threads : Holds(t) => ~InPython(t)

\* Whoever holds a Rust lock holds the GIL, so nobody waits for a lock with the
\* GIL in hand while the lock's holder waits for the GIL.
LocksUnderGil == poisoned \/ \A t \in Threads : Holds(t) => gil = t

\* No lock of the core is held by a thread that runs Python code or waits to.
LocksStayNative == NoPythonUnderLock /\ LocksUnderGil

\* Every native call returns, whatever its callbacks call and whoever waits,
\* unless a panic has poisoned a lock by then.
CallsReturn ==
  \A t \in Threads : Len(stack[t]) > 1 ~> Len(stack[t]) = 1 \/ poisoned

\* The comment on REGISTRATION_GATE: "No Python code runs under it".
NoPythonUnderGate == \A t \in Threads : gate = t => ~InPython(t)

\* Once sealed the emoji provider is the one every caller agreed on (#104).
ProviderFrozen == [][sealed => slot'["provider"] = slot["provider"]]_vars
=============================================================================
