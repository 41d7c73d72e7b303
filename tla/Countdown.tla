------------------------------ MODULE Countdown ------------------------------
(***************************************************************************)
(* The redirection modal of src/Webserv/www/scripts/index.js.              *)
(*                                                                         *)
(* redirectionCountdown() shows the modal and starts a 1 s interval with   *)
(* its own countdownValue = 5.  Each tick decrements it, writes it into    *)
(* the shared #countdown span and, at 0, clears that interval, assigns     *)
(* window.location.href and hides the modal.  The interval id is kept in a *)
(* local const; the module-level redirectInterval is declared and never   *)
(* read or assigned, so it is not modelled.  Nothing prevents a second    *)
(* call while a countdown runs.  The page stays and its intervals keep     *)
(* firing until the navigation unloads it.                                 *)
(*                                                                         *)
(* All intervals have the same 1 s period, so they fire in a fixed cyclic  *)
(* order: a new interval fires first after every running one has fired     *)
(* once.  The running intervals are therefore a queue: the head fires and, *)
(* unless cleared, goes to the back.                                       *)
(***************************************************************************)
EXTENDS Integers, Sequences

CONSTANTS
    None,      \* null
    MaxCalls   \* bound on the calls of redirectionCountdown

ASSUME CountdownAssumption == MaxCalls \in Nat \ {0} /\ None \notin Nat

Start == 5   \* the initial countdownValue

VARIABLES
    timers,            \* running intervals in firing order: id, countdownValue
    span,              \* the text of #countdown (None: not yet written)
    modal,             \* #redirectModal shown
    navigations,       \* assignments to window.location.href so far
    unloaded,          \* the navigation has replaced the page
    calls              \* calls of redirectionCountdown so far

vars == <<timers, span, modal, navigations, unloaded, calls>>

Timer == [id: Nat, value: Int]

-----------------------------------------------------------------------------
(* A plausible bug of the tick handler, used to check that the property   *)
(* can fail: a tick that clears the module-level redirectInterval instead  *)
(* of its own interval.  clearInterval(null) stops nothing, so the         *)
(* interval keeps firing below 0.                                          *)
TickClearsGlobal ==
    LET t == Head(timers)
        v == t.value - 1
    IN
    /\ timers # << >>
    /\ ~unloaded
    /\ span' = v
    /\ timers' = Append(Tail(timers), [t EXCEPT !.value = v])
    /\ IF v = 0
         THEN /\ navigations' = navigations + 1
              /\ modal' = FALSE
         ELSE UNCHANGED <<navigations, modal>>
    /\ UNCHANGED <<unloaded, calls>>

-----------------------------------------------------------------------------
Init ==
    /\ timers = << >>
    /\ span = None
    /\ modal = FALSE
    /\ navigations = 0
    /\ unloaded = FALSE
    /\ calls = 0

(* redirectionCountdown(): show the modal, start an interval at 5. *)
Call ==
    /\ ~unloaded
    /\ calls < MaxCalls
    /\ modal' = TRUE
    /\ timers' = Append(timers, [id |-> calls + 1, value |-> Start])
    /\ calls' = calls + 1
    /\ UNCHANGED <<span, navigations, unloaded>>

(* One run of the callback of the interval due next: decrement, show the  *)
(* count and, at 0, clearInterval(interval), navigate and hide the modal.  *)
Tick ==
    LET t == Head(timers)
        v == t.value - 1
    IN
    /\ timers # << >>
    /\ ~unloaded
    /\ span' = v
    /\ IF v = 0
         THEN /\ timers' = Tail(timers)
              /\ navigations' = navigations + 1
              /\ modal' = FALSE
         ELSE /\ timers' = Append(Tail(timers), [t EXCEPT !.value = v])
              /\ UNCHANGED <<navigations, modal>>
    /\ UNCHANGED <<unloaded, calls>>

(* The navigation started by a location.href assignment replaces the page. *)
Unload ==
    /\ navigations > 0
    /\ ~unloaded
    /\ unloaded' = TRUE
    /\ UNCHANGED <<timers, span, modal, navigations, calls>>

Next ==
    \/ Call
    \/ Tick
    \/ Unload

Spec == Init /\ [][Next]_vars

-----------------------------------------------------------------------------
(* Each call of redirectionCountdown redirects exactly once: until the    *)
(* page is gone, every call either still has its interval running, with a *)
(* count between 1 and 5, or has assigned location.href once and stopped.  *)
OneRedirectPerCall ==
    /\ navigations + Len(timers) = calls
    /\ \A i \in 1..Len(timers) : timers[i].value \in 1..Start

=============================================================================
