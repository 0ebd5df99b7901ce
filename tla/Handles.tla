------------------------------ MODULE Handles ------------------------------
(***************************************************************************)
(* The Java binding's objects that hold a native one: Pipeline and Lexicon *)
(* (Pipeline.java, Lexicon.java) over the registries of                    *)
(* bindings/java/rust/src/lib.rs.  A handle is a number into a map behind  *)
(* an RwLock; close() and the Cleaner take it out.  Any thread may use any *)
(* object.  A method needs `this` until it has read the handle: after that *)
(* nothing keeps the object alive, and the Cleaner may run while the       *)
(* native call is still on its way to the map.                             *)
(*                                                                         *)
(*   nextHandle        NEXT_HANDLE, shared by the two registries           *)
(*   registry          PIPELINES and LEXICONS: handle -> what it holds     *)
(*   made, handle      of each object: what it was made to be (its native  *)
(*                     object stands for it) and its handle                *)
(*   held, closed      whether the program has a reference to it, and the  *)
(*                     volatile flag                                       *)
(*   cleaned, freeing  whether its Cleanable has been used, and the frees  *)
(*                     under way                                           *)
(*   hpc, subject, fresh, answer   each thread: where it is, the object    *)
(*                     whose method it runs, the one it is making, and     *)
(*                     what the last call came to                          *)
(***************************************************************************)
EXTENDS Integers, FiniteSets, Functions

CONSTANTS
  Users,              \* threads
  Pipelines, Lexicons,   \* the objects the program may make
  MaxHandle           \* bound: the mutant's search for a free number

Objects == Pipelines \cup Lexicons
Kind(o) == IF o \in Pipelines THEN "pipeline" ELSE "lexicon"

NoObject == "no object"

VARIABLES nextHandle, registry, handle, held, closed, cleaned, freeing,
          hpc, subject, fresh, answer

natives == <<nextHandle, registry>>
javas == <<handle, held, closed, cleaned, freeing>>
users == <<hpc, subject, fresh, answer>>
vars == <<natives, javas, users>>

Init ==
  /\ nextHandle = 1
  /\ registry = [k \in {"pipeline", "lexicon"} |-> << >>]
  /\ handle = [o \in Objects |-> 0]
  /\ held = {} /\ closed = {} /\ cleaned = {} /\ freeing = {}
  /\ hpc = [u \in Users |-> "idle"]
  /\ subject = [u \in Users |-> NoObject] /\ fresh = [u \in Users |-> NoObject]
  /\ answer = [u \in Users |-> NoObject]

Goto(u, from, to) == hpc[u] = from /\ hpc' = [hpc EXCEPT ![u] = to]

\* An object the program has not asked for yet.
Unmade(o) == handle[o] = 0 /\ \A u \in Users : fresh[u] # o

-----------------------------------------------------------------------------
\* getPipeline and new Lexicon: the native constructor has succeeded.
Compile(u) ==
  /\ Goto(u, "idle", "allocate")
  /\ \E o \in Objects : Unmade(o) /\ fresh' = [fresh EXCEPT ![u] = o]
  /\ answer' = [answer EXCEPT ![u] = NoObject]
  /\ UNCHANGED <<natives, javas, subject>>

\* Mutant: the lowest number its registry does not hold.
NextHandleLowestFree(k) ==
  CHOOSE h \in 1..MaxHandle :
    h \notin DOMAIN registry[k] /\ \A i \in 1..(h - 1) : i \in DOMAIN registry[k]

\* next_handle: fetch_add never gives a number twice.
NextHandle(k) == nextHandle

Allocate(u) ==
  /\ Goto(u, "allocate", "insert")
  /\ handle' = [handle EXCEPT ![fresh[u]] = NextHandle(Kind(fresh[u]))]
  /\ nextHandle' = nextHandle + 1
  /\ UNCHANGED <<registry, held, closed, cleaned, freeing, subject, fresh, answer>>

\* Under the write guard.
Insert(u) ==
  /\ Goto(u, "insert", "wrap")
  /\ registry' = [registry EXCEPT ![Kind(fresh[u])] =
                    [h \in DOMAIN @ \cup {handle[fresh[u]]} |->
                       IF h = handle[fresh[u]] THEN fresh[u] ELSE @[h]]]
  /\ UNCHANGED <<nextHandle, javas, subject, fresh, answer>>

\* The Java constructor registers the object with its Cleaner.
Wrap(u) ==
  /\ Goto(u, "wrap", "idle")
  /\ held' = held \cup {fresh[u]}
  /\ fresh' = [fresh EXCEPT ![u] = NoObject]
  /\ subject' = [subject EXCEPT ![u] = NoObject]
  /\ answer' = [answer EXCEPT ![u] = NoObject]
  /\ UNCHANGED <<natives, handle, closed, cleaned, freeing>>

-----------------------------------------------------------------------------
\* The head of process, purpose, withDigitPolicy and Lexicon.handle(): a closed
\* object throws, and an open one has its handle read.
CheckOpen(u, o, to) ==
  /\ o \in held
  /\ answer' = [answer EXCEPT ![u] = NoObject]
  /\ subject' = [subject EXCEPT ![u] = IF o \in closed THEN NoObject ELSE o]
  /\ Goto(u, "idle", IF o \in closed THEN "idle" ELSE to)
  /\ UNCHANGED <<natives, javas, fresh>>

BeginCall(u) == \E o \in Objects : CheckOpen(u, o, "lookup")
BeginCopy(u) == \E o \in Pipelines : CheckOpen(u, o, "clone")

\* What the registry holds under the handle of u's object, or "stale".
Found(u) ==
  LET k == Kind(subject[u])
  IN IF handle[subject[u]] \in DOMAIN registry[k]
     THEN registry[k][handle[subject[u]]] ELSE "stale"

\* pipelineProcess, pipelinePurpose, hasAnomalies, inspectAnomalies: the lookup
\* and its use are under one read guard.  "stale" is a clean exception.
Lookup(u) ==
  /\ Goto(u, "lookup", "answered")
  /\ answer' = [answer EXCEPT ![u] = Found(u)]
  /\ UNCHANGED <<natives, javas, subject, fresh>>

\* pipelineWithDigitPolicy: the guard covers the copy, not what follows.
Clone(u) ==
  /\ hpc[u] = "clone"
  /\ answer' = [answer EXCEPT ![u] = Found(u)]
  /\ \/ /\ Found(u) = "stale"
        /\ hpc' = [hpc EXCEPT ![u] = "answered"]
        /\ UNCHANGED fresh
     \/ /\ Found(u) # "stale"
        /\ hpc' = [hpc EXCEPT ![u] = "allocate"]
        /\ \E o \in Pipelines : Unmade(o) /\ fresh' = [fresh EXCEPT ![u] = o]
  /\ UNCHANGED <<natives, javas, subject>>

\* The profile has no confusables step: the policy is refused.
CloneRefused(u) ==
  /\ Goto(u, "clone", "answered")
  /\ Found(u) # "stale"
  /\ answer' = [answer EXCEPT ![u] = Found(u)]
  /\ UNCHANGED <<natives, javas, subject, fresh>>

EndCall(u) ==
  /\ Goto(u, "answered", "idle")
  /\ subject' = [subject EXCEPT ![u] = NoObject]
  /\ answer' = [answer EXCEPT ![u] = NoObject]
  /\ UNCHANGED <<natives, javas, fresh>>

-----------------------------------------------------------------------------
\* close(): the flag is read, and written by a later step.
BeginClose(u) == \E o \in Objects : CheckOpen(u, o, "close")

WriteClosed(u) ==
  /\ Goto(u, "close", "clean")
  /\ closed' = closed \cup {subject[u]}
  /\ UNCHANGED <<natives, handle, held, cleaned, freeing, subject, fresh, answer>>

\* A Cleanable is taken off its list once, and its action run by who took it.
Clean(u) ==
  /\ hpc[u] = "clean"
  /\ cleaned' = cleaned \cup {subject[u]}
  /\ IF subject[u] \in cleaned
     THEN /\ hpc' = [hpc EXCEPT ![u] = "idle"]
          /\ subject' = [subject EXCEPT ![u] = NoObject]
          /\ UNCHANGED freeing
     ELSE /\ hpc' = [hpc EXCEPT ![u] = "free"]
          /\ freeing' = freeing \cup {subject[u]}
          /\ UNCHANGED subject
  /\ UNCHANGED <<natives, handle, held, closed, fresh, answer>>

\* pipelineFree or lexiconFree.
Remove(o) ==
  registry' = [registry EXCEPT ![Kind(o)] =
                 [h \in DOMAIN @ \ {handle[o]} |-> @[h]]]

\* The free of a close(), under the write guard.
FreeClosed(u) ==
  /\ Goto(u, "free", "idle")
  /\ Remove(subject[u])
  /\ freeing' = freeing \ {subject[u]}
  /\ subject' = [subject EXCEPT ![u] = NoObject]
  /\ UNCHANGED <<nextHandle, handle, held, closed, cleaned, fresh, answer>>

\* The program drops its last reference, and may do so while a call it made is
\* past its last use of `this`.
LetGo(o) ==
  /\ o \in held
  /\ held' = held \ {o}
  /\ UNCHANGED <<natives, handle, closed, cleaned, freeing, users>>

\* The object can no longer be reached: its Cleaner takes the Cleanable.
Collect(o) ==
  /\ handle[o] # 0 /\ o \notin held /\ o \notin cleaned
  /\ \A u \in Users :
       /\ fresh[u] # o
       /\ subject[u] = o => hpc[u] \notin {"close", "clean"}
  /\ cleaned' = cleaned \cup {o}
  /\ freeing' = freeing \cup {o}
  /\ UNCHANGED <<natives, handle, held, closed, users>>

\* The Cleaner's thread frees the handle.
FreeCollected(o) ==
  /\ o \in freeing
  /\ \A u \in Users : ~(hpc[u] = "free" /\ subject[u] = o)
  /\ Remove(o)
  /\ freeing' = freeing \ {o}
  /\ UNCHANGED <<nextHandle, handle, held, closed, cleaned, users>>

Next ==
  \/ \E u \in Users :
       \/ Compile(u) \/ Allocate(u) \/ Insert(u) \/ Wrap(u)
       \/ BeginCall(u) \/ BeginCopy(u) \/ Lookup(u) \/ Clone(u) \/ CloneRefused(u)
       \/ EndCall(u) \/ BeginClose(u) \/ WriteClosed(u) \/ Clean(u) \/ FreeClosed(u)
  \/ \E o \in Objects : LetGo(o) \/ Collect(o) \/ FreeCollected(o)

Spec == Init /\ [][Next]_vars

-----------------------------------------------------------------------------
\* "A stale handle can't alias": a call is answered by the native object its
\* own object was made with, or told that there is none, and that only when the
\* object has been closed or nobody holds it any more.
AnswersOwn ==
  \A u \in Users : answer[u] # NoObject =>
    \/ answer[u] = subject[u]
    \/ answer[u] = "stale" /\ (subject[u] \in closed \/ subject[u] \notin held)

\* Each handle is freed once and for all: what a registry holds is an object
\* that can still be cleaned or is being made, never one cleaned before, and
\* an object that has not been cleaned still has its native one.
FreedOnce ==
  \A o \in Objects :
    (\E h \in DOMAIN registry[Kind(o)] : registry[Kind(o)][h] = o)
      <=> /\ handle[o] # 0 /\ (o \in cleaned => o \in freeing)
          /\ \A u \in Users : ~(hpc[u] = "insert" /\ fresh[u] = o)

\* Both: handles never alias and never leak.
HandlesSound == AnswersOwn /\ FreedOnce
=============================================================================
