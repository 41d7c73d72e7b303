--------------------------- MODULE CountdownProofs ---------------------------
(***************************************************************************)
(* Proofs about the redirect countdown of index.js, for every bound on the *)
(* number of calls: each call of redirectionCountdown navigates exactly    *)
(* once, however the calls overlap.                                       *)
(***************************************************************************)
EXTENDS Countdown, SequenceTheorems, TLAPS

(* The inductive invariant the proofs rest on: the intervals are          *)
(* well-formed records, the counters are numbers, and OneRedirectPerCall.  *)
RedirectInv ==
    /\ timers \in Seq(Timer)
    /\ navigations \in Nat
    /\ calls \in 0..MaxCalls
    /\ OneRedirectPerCall

(* The interval that fired goes back to the end of the queue with its new  *)
(* count: the queue keeps its length, and the others move up by one.      *)
LEMMA Requeue ==
    ASSUME NEW q \in Seq(Timer), q # << >>, NEW v \in Int
    PROVE  /\ Append(Tail(q), [Head(q) EXCEPT !.value = v]) \in Seq(Timer)
           /\ Len(Append(Tail(q), [Head(q) EXCEPT !.value = v])) = Len(q)
           /\ \A i \in 1..Len(q) - 1 :
                 Append(Tail(q), [Head(q) EXCEPT !.value = v])[i] = q[i + 1]
           /\ Append(Tail(q), [Head(q) EXCEPT !.value = v])[Len(q)].value = v
<1> DEFINE u == [Head(q) EXCEPT !.value = v]
<1>1. /\ Head(q) \in Timer
      /\ Tail(q) \in Seq(Timer)
      /\ Len(Tail(q)) = Len(q) - 1
      /\ \A i \in 1..Len(Tail(q)) : Tail(q)[i] = q[i + 1]
    BY HeadTailProperties
<1>2. u \in Timer /\ u.value = v
    BY <1>1 DEF Timer
<1>3. /\ Append(Tail(q), u) \in Seq(Timer)
      /\ Len(Append(Tail(q), u)) = Len(Tail(q)) + 1
      /\ \A i \in 1..Len(Tail(q)) : Append(Tail(q), u)[i] = Tail(q)[i]
      /\ Append(Tail(q), u)[Len(Tail(q)) + 1] = u
    BY <1>1, <1>2, AppendProperties
<1>4. QED
    BY <1>1, <1>2, <1>3

LEMMA InvInit == Init => RedirectInv
BY CountdownAssumption DEF Init, RedirectInv, OneRedirectPerCall

LEMMA InvStep == RedirectInv /\ [Next]_vars => RedirectInv'
<1> SUFFICES ASSUME RedirectInv, [Next]_vars PROVE RedirectInv'
    OBVIOUS
<1>1. CASE Call
  <2>1. timers' = Append(timers, [id |-> calls + 1, value |-> Start])
      BY <1>1 DEF Call
  <2>2. timers' \in Seq(Timer)
      BY <2>1 DEF RedirectInv, Timer, Start
  <2>3. Len(timers') = Len(timers) + 1 /\ \A i \in 1..Len(timers) : timers'[i] = timers[i]
      BY <2>1 DEF RedirectInv
  <2>4. timers'[Len(timers')].value = Start
      BY <2>1 DEF RedirectInv
  <2>5. OneRedirectPerCall'
      BY <1>1, <2>3, <2>4 DEF Call, RedirectInv, OneRedirectPerCall, Start
  <2>6. QED
      BY <1>1, <2>2, <2>5, CountdownAssumption DEF Call, RedirectInv
<1>2. CASE Tick
  <2> DEFINE t == Head(timers)
             v == t.value - 1
  <2>1. timers # << >> /\ timers \in Seq(Timer)
      BY <1>2 DEF Tick, RedirectInv
  <2>2. t.value \in 1..Start
      BY <2>1 DEF RedirectInv, OneRedirectPerCall
  <2>3. CASE v = 0
    <3>1. timers' = Tail(timers) /\ navigations' = navigations + 1
        BY <1>2, <2>3 DEF Tick
    <3>2. /\ Tail(timers) \in Seq(Timer)
          /\ Len(Tail(timers)) = Len(timers) - 1
          /\ \A i \in 1..Len(Tail(timers)) : Tail(timers)[i] = timers[i + 1]
        BY <2>1, HeadTailProperties
    <3>3. calls' = calls
        BY <1>2 DEF Tick
    <3>4. OneRedirectPerCall'
      <4>1. navigations' + Len(timers') = calls'
          BY <2>1, <3>1, <3>2, <3>3 DEF RedirectInv, OneRedirectPerCall
      <4>2. \A i \in 1..Len(timers') : timers'[i].value \in 1..Start
          BY <3>1, <3>2 DEF RedirectInv, OneRedirectPerCall
      <4>3. QED
          BY <4>1, <4>2 DEF OneRedirectPerCall
    <3>5. QED
        BY <3>1, <3>2, <3>3, <3>4 DEF RedirectInv
  <2>4. CASE v # 0
    <3>1. timers' = Append(Tail(timers), [t EXCEPT !.value = v]) /\ navigations' = navigations
        BY <1>2, <2>4 DEF Tick
    <3>2. v \in 1..Start
        BY <2>2, <2>4 DEF Start
    <3>3. /\ timers' \in Seq(Timer)
          /\ Len(timers') = Len(timers)
          /\ \A i \in 1..Len(timers) - 1 : timers'[i] = timers[i + 1]
          /\ timers'[Len(timers)].value = v
      <4>1. v \in Int
          BY <2>2 DEF Start
      <4>2. QED
          BY <2>1, <3>1, <4>1, Requeue
    <3>4. \A i \in 1..Len(timers') : timers'[i].value \in 1..Start
        BY <2>1, <3>2, <3>3 DEF RedirectInv, OneRedirectPerCall
    <3>5. calls' = calls
        BY <1>2 DEF Tick
    <3>6. QED
        BY <3>1, <3>3, <3>4, <3>5 DEF RedirectInv, OneRedirectPerCall
  <2>5. QED
      BY <2>3, <2>4
<1>3. CASE Unload
    BY <1>3 DEF Unload, RedirectInv, OneRedirectPerCall
<1>4. CASE UNCHANGED vars
    BY <1>4 DEF vars, RedirectInv, OneRedirectPerCall
<1>5. QED
    BY <1>1, <1>2, <1>3, <1>4 DEF Next

(* Each call of redirectionCountdown assigns location.href exactly once,   *)
(* however many calls overlap: navigations plus running intervals equal    *)
(* the calls, and every running count stays in 1..5.                       *)
THEOREM RedirectOnce == Spec => []OneRedirectPerCall
<1>1. RedirectInv => OneRedirectPerCall
    BY DEF RedirectInv
<1>2. QED
    BY <1>1, InvInit, InvStep, PTL DEF Spec

=============================================================================
