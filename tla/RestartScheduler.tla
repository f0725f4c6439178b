-------------------------- MODULE RestartScheduler --------------------------
(***************************************************************************)
(* The deferred restart of common/ (CASExampleHelper.cpp: RequestRestart,    *)
(* RestartDue): ReinitializeDevice requests come in at any time, the main    *)
(* loop asks once per tick whether a restart is due, and several ticks may   *)
(* pass a deadline by before it asks.                                       *)
(***************************************************************************)
EXTENDS Naturals

CONSTANTS
  Delays,   \* what is asked for, in ticks of the monotonic clock
  MAX_NOW   \* bound on the clock

ASSUME DelaysAssumption == Delays \subseteq Nat

VARIABLES
  now,              \* MonotonicMilliseconds()
  restartPending,   \* g_restartPending
  restartDueAt,     \* g_restartDueAtMs
  restartKind,      \* g_restartKind
  promised          \* history: the requests no restart has answered yet, [kind, dueAt]

restartVars == <<now, restartPending, restartDueAt, restartKind, promised>>

RestartKinds == {"Cold", "Warm"}

RestartInit ==
  /\ now = 0
  /\ restartPending = FALSE
  /\ restartDueAt = 0
  /\ restartKind = "Warm"
  /\ promised = {}

MonotonicTicks ==
  /\ now < MAX_NOW
  /\ now' = now + 1
  /\ UNCHANGED <<restartPending, restartDueAt, restartKind, promised>>

\* The last request decides.
EarlierOf_Last(dueAt, other) == other

EarlierOf(dueAt, other) == IF other < dueAt THEN other ELSE dueAt

\* A pending restart keeps its deadline unless the new one is earlier, and its kind
\* unless the new one is Cold.
RequestRestart(kind, delay) ==
  LET dueAt == now + delay
  IN /\ restartPending' = TRUE
     /\ restartDueAt' = IF restartPending THEN EarlierOf(restartDueAt, dueAt) ELSE dueAt
     /\ restartKind' = IF restartPending /\ kind # "Cold" THEN restartKind ELSE kind
     /\ promised' = promised \cup {[kind |-> kind, dueAt |-> dueAt]}
     /\ UNCHANGED now

\* The answer TRUE; otherwise RestartDue changes nothing.
RestartDue ==
  /\ restartPending
  /\ restartDueAt <= now
  /\ restartPending' = FALSE
  /\ promised' = {}
  /\ UNCHANGED <<now, restartDueAt, restartKind>>

RestartNext ==
  \/ MonotonicTicks
  \/ \E kind \in RestartKinds, delay \in Delays : RequestRestart(kind, delay)
  \/ RestartDue

RestartSpec == RestartInit /\ [][RestartNext]_restartVars

----------------------------------------------------------------------------

RestartTypeOK ==
  /\ now \in Nat
  /\ restartPending \in BOOLEAN
  /\ restartDueAt \in Nat
  /\ restartKind \in RestartKinds
  /\ promised \subseteq [kind : RestartKinds, dueAt : Nat]

\* Whatever requests came in, in whatever order: a restart is pending exactly while
\* one is owed, it is due when the first client was promised it, no earlier and no
\* later, and it is a cold one exactly if somebody asked for that
\* (CASExampleHelper.h:218-222, CASExampleHelper.cpp:1836-1862).
PromisesAreKept ==
  /\ restartPending <=> promised # {}
  /\ restartPending =>
       /\ \E request \in promised : request.dueAt = restartDueAt
       /\ \A request \in promised : restartDueAt <= request.dueAt
       /\ restartKind = "Cold" <=> \E request \in promised : request.kind = "Cold"
=============================================================================
