--------------------------- MODULE AwesomeSlugify ---------------------------
(***************************************************************************)
(* Slugify and UniqueSlugify (python/disarm/_compat.py): an object whose   *)
(* settings are attributes.  A setter writes the setting and marks the     *)
(* object dirty; the next call builds an inner object with the settings    *)
(* there are.  A step is one statement, and every thread may set and call. *)
(* The inner object is UniqueSlugify's, which numbers the slugs of a text  *)
(* by what it has given; Slugify's has nothing to remember.                *)
(*                                                                         *)
(*   settings          _kwargs, numbered by the changes made to it         *)
(*   dirty             _dirty                                              *)
(*   inners, inner     every inner object built, and the one in place      *)
(*   spc, built, using each thread: where it is, the object it has built,  *)
(*                     and the one it is about to ask                      *)
(*   calls             the calls made so far                               *)
(*   missed            history: a setting was written while a call rebuilt *)
(*   overlapped        history: the calls whose rebuild another overlaps   *)
(*   era, since        history: the events that may make the object        *)
(*                     forget, numbered, and what each call began after    *)
(*   given, repeated   history: the slugs given in this era by calls that  *)
(*                     began in it, and whether one was given twice        *)
(***************************************************************************)
EXTENDS Integers, Sequences

CONSTANTS
  Threads,
  MaxSets,     \* bound: the setters are used this often
  MaxCalls     \* bound: the object is called or reset this often

VARIABLES settings, dirty, inners, inner, spc, built, using, calls,
          missed, overlapped, era, since, given, repeated

object == <<settings, dirty, inners, inner>>
threads == <<spc, built, using, calls, since>>
history == <<missed, overlapped, era, given, repeated>>
vars == <<object, threads, history>>

\* An inner object: the settings it was built with, and how many slugs of the
\* one text it has given.
Inner(s) == [settings |-> s, count |-> 0]

Init ==
  /\ settings = 0 /\ dirty = FALSE
  /\ inners = <<Inner(0)>> /\ inner = 1
  /\ spc = [t \in Threads |-> "idle"]
  /\ built = [t \in Threads |-> 0] /\ using = [t \in Threads |-> 0]
  /\ calls = 0
  /\ missed = FALSE /\ overlapped = {}
  /\ era = 0 /\ since = [t \in Threads |-> 0]
  /\ given = {} /\ repeated = FALSE

Goto(t, from, to) ==
  /\ spc[t] = from
  /\ spc' = [spc EXCEPT ![t] = to]

\* The threads that are inside the `if self._dirty:` block.
Rebuilding == {t \in Threads : spc[t] \in {"build", "assign", "clean"}}

NewEra == era' = era + 1 /\ given' = {}

-----------------------------------------------------------------------------
\* Mutant: the object is marked before the setting is written.
SetThenMarkSwapped(t) ==
  \/ /\ Goto(t, "idle", "mark")
     /\ settings < MaxSets
     /\ dirty' = TRUE
     /\ UNCHANGED <<settings, inners, inner, built, using, calls, since,
                    missed, overlapped, era, given, repeated>>
  \/ /\ Goto(t, "mark", "idle")
     /\ settings' = settings + 1
     /\ missed' = (missed \/ Rebuilding # {})
     /\ NewEra
     /\ UNCHANGED <<dirty, inners, inner, built, using, calls, since,
                    overlapped, repeated>>

\* A setter, two statements: the setting, then the mark.
SetThenMark(t) ==
  \/ /\ Goto(t, "idle", "mark")
     /\ settings < MaxSets
     /\ settings' = settings + 1
     /\ missed' = (missed \/ Rebuilding # {})
     /\ UNCHANGED <<dirty, inners, inner, built, using, calls, since,
                    overlapped, era, given, repeated>>
  \/ /\ Goto(t, "mark", "idle")
     /\ dirty' = TRUE
     /\ NewEra
     /\ UNCHANGED <<settings, inners, inner, built, using, calls, since,
                    missed, overlapped, repeated>>

-----------------------------------------------------------------------------
(***************************************************************************)
(* __call__ without overrides and reset(), as far as the inner object:     *)
(* _ensure_inner and _ensure_unique_inner.  A call with overrides builds   *)
(* an object of its own from a copy of the settings and changes nothing.   *)
(***************************************************************************)
ReadDirty(t) ==
  /\ calls < MaxCalls
  /\ calls' = calls + 1
  /\ Goto(t, "idle", IF dirty THEN "build" ELSE "load")
  /\ since' = [since EXCEPT ![t] = era]
  /\ overlapped' = IF dirty /\ Rebuilding # {} THEN overlapped \cup Rebuilding \cup {t}
                   ELSE overlapped
  /\ UNCHANGED <<object, built, using, missed, era, given, repeated>>

\* The settings are read here, whatever they become before the next statement.
Build(t) ==
  /\ Goto(t, "build", "assign")
  /\ inners' = Append(inners, Inner(settings))
  /\ built' = [built EXCEPT ![t] = Len(inners')]
  /\ UNCHANGED <<settings, dirty, inner, using, calls, since, history>>

Assign(t) ==
  /\ Goto(t, "assign", "clean")
  /\ inner' = built[t]
  /\ IF t \in overlapped THEN NewEra ELSE UNCHANGED <<era, given>>
  /\ UNCHANGED <<settings, dirty, inners, built, using, calls, since, missed,
                 overlapped, repeated>>

ClearDirty(t) ==
  /\ Goto(t, "clean", "load")
  /\ dirty' = FALSE
  /\ overlapped' = overlapped \ {t}
  /\ UNCHANGED <<settings, inners, inner, built, using, calls, since, missed, era,
                 given, repeated>>

Load(t) ==
  /\ Goto(t, "load", "ask")
  /\ using' = [using EXCEPT ![t] = inner]
  /\ built' = [built EXCEPT ![t] = 0]
  /\ UNCHANGED <<object, calls, since, history>>

\* The inner object gives the text its next slug: UniqueSlugifier says how.
Slug(t) ==
  /\ Goto(t, "ask", "idle")
  /\ LET slug == inners[using[t]].count + 1
     IN /\ inners' = [inners EXCEPT ![using[t]].count = slug]
        /\ IF since[t] = era
           THEN /\ given' = given \cup {slug}
                /\ repeated' = (repeated \/ slug \in given)
           ELSE UNCHANGED <<given, repeated>>
  /\ using' = [using EXCEPT ![t] = 0]
  /\ UNCHANGED <<settings, dirty, inner, built, calls, since, missed, overlapped,
                 era>>

Reset(t) ==
  /\ Goto(t, "ask", "idle")
  /\ inners' = [inners EXCEPT ![using[t]].count = 0]
  /\ NewEra
  /\ using' = [using EXCEPT ![t] = 0]
  /\ UNCHANGED <<settings, dirty, inner, built, calls, since, missed, overlapped,
                 repeated>>

Next == \E t \in Threads :
  \/ SetThenMark(t) \/ ReadDirty(t) \/ Build(t) \/ Assign(t) \/ ClearDirty(t)
  \/ Load(t) \/ Slug(t) \/ Reset(t)

Spec == Init /\ [][Next]_vars

-----------------------------------------------------------------------------
\* With no call or setter under way and no mark left, the inner object has the
\* settings there are, so the next call uses them - unless one was set while a
\* call was rebuilding, whose last statement may wipe its mark.
SettingsKept ==
  ((\A t \in Threads : spc[t] = "idle") /\ ~dirty) =>
    (inners[inner].settings = settings \/ missed)

\* UniqueSlugify "tracks previously generated slugs": it gives one again only
\* after a setter, a reset, or calls that were rebuilding at once.
SlugsApart == ~repeated

\* Both: what the object was told and what it has said are kept, as far as the
\* statements of concurrent calls let them.
AttributesKept == SettingsKept /\ SlugsApart
=============================================================================
