-------------------------- MODULE PerformanceWarning --------------------------
(* The warnings about slow code and the scopes that disable them, on one       *)
(* thread.  The only slow code is ValueSegment<T>::operator[].  Its warning is *)
(* a static object of a member of a template: one object for every T.          *)
EXTENDS Integers, Sequences, FiniteSets

CONSTANTS Types,      \* the types that ValueSegment is instantiated with
          Builds,     \* the builds: TRUE with IS_DEBUG, FALSE without
          MaxScopes   \* bound: the nested scopes of the client

ASSUME WarningsAssumption == Builds \subseteq BOOLEAN /\ MaxScopes \in Nat

VARIABLES debug,     \* IS_DEBUG of the build: warnings and assertions are compiled
          disabled,  \* PerformanceWarningClass::disabled()
          warned,    \* the types whose static warning has been constructed
          shown,     \* how often each type's warning has been printed
          scopes     \* _previously_disabled of the client's disablers, innermost last

warnings == <<debug, disabled, warned, shown, scopes>>

WarningsInit ==
    /\ debug \in Builds
    /\ disabled = FALSE
    /\ warned = {}
    /\ shown = [T \in Types |-> 0]
    /\ scopes = <<>>

\* (Mutant: the warnings are not static.)
EveryOne(read) == IF debug THEN read ELSE {}

\* Of the types whose cells are read, those whose warning is now constructed.
NewlyWarned(read) == IF debug THEN read \ warned ELSE {}

\* PerformanceWarning in operator[] of cells of the types `read`.  A warning that
\* is constructed while `silent` prints nothing, then or later.
Warn(read, silent) ==
    /\ warned' = warned \cup NewlyWarned(read)
    /\ shown' = [T \in Types |->
                    IF T \in NewlyWarned(read) /\ ~silent THEN shown[T] + 1 ELSE shown[T]]

\* (Mutant: the end of a disabler always enables.)
Enabled(previously, flag) == FALSE

\* What a disabler leaves the flag at when it ends.
Restored(previously, flag) == previously /\ flag

EnterScope ==
    /\ Len(scopes) < MaxScopes
    /\ scopes' = Append(scopes, disabled)
    /\ disabled' = TRUE
    /\ UNCHANGED <<debug, warned, shown>>

LeaveScope ==
    /\ scopes # <<>>
    /\ disabled' = Restored(scopes[Len(scopes)], disabled)
    /\ scopes' = SubSeq(scopes, 1, Len(scopes) - 1)
    /\ UNCHANGED <<debug, warned, shown>>

\* A function that reads cells of the types `read` under a disabler of its own.
ReadSilently(read) ==
    /\ Warn(read, TRUE)
    /\ disabled' = Restored(disabled, TRUE)
    /\ UNCHANGED <<debug, scopes>>

\* A client that reads such cells itself.
ReadLoudly(read) ==
    /\ Warn(read, disabled)
    /\ UNCHANGED <<debug, disabled, scopes>>

-----------------------------------------------------------------------------
\* Warnings are disabled exactly as long as the client is in a scope that
\* disables them: what runs under disablers of its own, or fails there, leaves
\* the flag as it was (performance_warning.hpp:14-18).
DisabledInScopesOnly == disabled <=> scopes # <<>>

\* In a scope that disables warnings none is printed, whatever runs in it.
ScopesAreSilent == [][scopes # <<>> => shown' = shown]_warnings

\* Each of the static objects prints its warning at most once.
ShownOncePerType == \A T \in Types : shown[T] <= 1

\* "The warnings are printed only once per program execution.  This is achieved
\* by using static variables" (performance_warning.hpp:11).  There is one text.
WarningIsShownOnce ==
    \A T, U \in Types : shown[T] > 0 /\ shown[U] > 0 => T = U /\ shown[T] = 1
=============================================================================
