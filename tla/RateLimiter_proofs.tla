------------------------- MODULE RateLimiter_proofs -------------------------
(***************************************************************************)
(* Proofs about RateLimiter, for any number of workers, any sizes, rate    *)
(* and window.                                                             *)
(*                                                                         *)
(* What a window has paid out is not enough to know: of two workers that   *)
(* sleep, either may wake first.  Covered says of every moment t from now  *)
(* on that the window pays, by then, for what has returned and for all     *)
(* that is due by t.  The bytes that are due are counted as the elements   *)
(* of a set, one for each byte.                                            *)
(***************************************************************************)
EXTENDS RateLimiter, FiniteSetTheorems, TLAPS

\* The bytes of the sleeping calls that were made in this window.
Sleepers == {w \in sleeping : call[w].window = windows}
Asleep == {b \in sleeping \X Nat : b[1] \in Sleepers /\ b[2] \in 1 .. call[b[1]].bytes}
Due(t) == {b \in Asleep : call[b[1]].wake <= t}

\* No call is of a window to come.
WindowsPast == \A w \in Workers : call[w].window <= windows

\* All that is asleep or paid in this window has been added to it.
Counted ==
  /\ IsFiniteSet(Asleep)
  /\ paid + Cardinality(Asleep) <= consumed

Covered ==
  \A t \in Nat : t >= now =>
    paid + Cardinality(Due(t)) < Rate * (t - window_start) + Rate

\* What the windows before this one have let through.
ClosedCovered ==
  released <= forgiven + paid + Rate * window_start + (windows - 1) * (Rate - 1)

IInv == TypeOK /\ WindowsPast /\ Counted /\ Covered /\ ClosedCovered

-----------------------------------------------------------------------------
(* Arithmetic, and counting bytes.                                         *)

\* Owed() is the quotient: the rest is less than what a tick pays for.
LEMMA OwedBounds ==
  ASSUME NEW n \in Nat
  PROVE  /\ Owed(n) \in Nat
         /\ Rate * Owed(n) <= n /\ n < Rate * Owed(n) + Rate
BY RateAssumption DEF Owed

\* What more ticks pay for.
LEMMA RateTimes ==
  ASSUME NEW a \in Nat, NEW b \in Nat, a <= b
  PROVE  /\ Rate * a \in Nat /\ Rate * b \in Nat
         /\ Rate * a <= Rate * b
         /\ Rate * (b - a) = Rate * b - Rate * a
         /\ Rate * (b - a) \in Nat
BY RateAssumption

\* One window more is one rounding more.
LEMMA Roundings ==
  ASSUME NEW n \in Nat \ {0}
  PROVE  /\ n * (Rate - 1) = (n - 1) * (Rate - 1) + (Rate - 1)
         /\ (n - 1) * (Rate - 1) \in Nat
BY RateAssumption

\* A call has as many elements as it has bytes.
LEMMA BytesOfCall ==
  ASSUME NEW w, NEW n \in Nat
  PROVE  IsFiniteSet({w} \X (1 .. n)) /\ Cardinality({w} \X (1 .. n)) = n
<1>1. IsFiniteSet({w}) /\ Cardinality({w}) = 1
  BY FS_Singleton
<1>2. IsFiniteSet(1 .. n) /\ Cardinality(1 .. n) = n
  BY FS_Interval
<1>3. /\ IsFiniteSet({w} \X (1 .. n))
      /\ Cardinality({w} \X (1 .. n)) = Cardinality({w}) * Cardinality(1 .. n)
  BY <1>1, <1>2, FS_Product, Zenon
<1>4. QED
  BY <1>1, <1>2, <1>3

\* What is due is part of what is asleep.
LEMMA DueFinite ==
  ASSUME Counted, NEW t \in Nat
  PROVE  /\ IsFiniteSet(Due(t)) /\ Cardinality(Due(t)) \in Nat
         /\ Cardinality(Asleep) \in Nat /\ Cardinality(Due(t)) <= Cardinality(Asleep)
<1>1. Due(t) \in SUBSET Asleep
  BY DEF Due
<1>2. QED
  BY <1>1, FS_Subset, FS_CardinalityType DEF Counted

\* The window that is open has paid for what has returned.
LEMMA PaidCovered ==
  ASSUME TypeOK, Counted, Covered
  PROVE  paid < Rate * (now - window_start) + Rate
<1>1. now \in Nat /\ window_start \in Nat /\ window_start <= now /\ paid \in Nat
  BY RateAssumption DEF TypeOK
<1>2. Cardinality(Due(now)) \in Nat
  BY <1>1, DueFinite
<1>3. paid + Cardinality(Due(now)) < Rate * (now - window_start) + Rate
  BY <1>1 DEF Covered
<1>4. Rate * (now - window_start) \in Nat /\ Rate \in Nat
  BY <1>1, RateTimes, RateAssumption
<1>5. QED
  BY <1>1, <1>2, <1>3, <1>4

-----------------------------------------------------------------------------
(* What consume() does with the bytes that are asleep.                     *)

\* A call that goes to sleep adds its bytes to those that are.
LEMMA FallAsleep ==
  ASSUME TypeOK, Counted, NEW w \in Workers, w \notin sleeping, NEW c \in Call,
         c.window = windows,
         sleeping' = sleeping \cup {w}, call' = [call EXCEPT ![w] = c], windows' = windows
  PROVE  /\ IsFiniteSet(Asleep') /\ Cardinality(Asleep') = Cardinality(Asleep) + c.bytes
         /\ \A t \in Nat : t < c.wake => Due(t)' = Due(t)
<1> DEFINE new == {w} \X (1 .. c.bytes)
<1>1. call \in [Workers -> Call] /\ sleeping \subseteq Workers /\ c.bytes \in Nat
  BY DEF TypeOK, Call
<1>2. Asleep' = Asleep \cup new
  BY <1>1 DEF Asleep, Sleepers
<1>3. Asleep \cap new = {}
  BY DEF Asleep
<1>4. IsFiniteSet(new) /\ Cardinality(new) = c.bytes
  BY <1>1, BytesOfCall
<1>5. IsFiniteSet(Asleep) /\ Cardinality(Asleep) \in Nat
  BY FS_CardinalityType DEF Counted
<1> HIDE DEF new
<1>6. /\ IsFiniteSet(Asleep \cup new)
      /\ Cardinality(Asleep \cup new)
           = Cardinality(Asleep) + Cardinality(new) - Cardinality(Asleep \cap new)
  BY <1>4, <1>5, FS_Union, Zenon
<1>7. Cardinality(Asleep \cap new) = 0
  BY <1>3, FS_EmptySet
<1>8. ASSUME NEW t \in Nat, t < c.wake PROVE Due(t)' = Due(t)
  <2>1. \A b \in new : b[1] = w
    BY DEF new
  <2>2. \A b \in new : call'[b[1]].wake = c.wake
    BY <1>1, <2>1
  <2>3. \A b \in Asleep : call'[b[1]] = call[b[1]]
    BY <1>1 DEF Asleep
  <2>4. c.wake \in Nat
    BY DEF Call
  <2>5. QED
    BY <1>2, <1>8, <2>2, <2>3, <2>4 DEF Due
<1>9. QED
  BY <1>1, <1>2, <1>4, <1>5, <1>6, <1>7, <1>8

\* A call of this window that wakes takes its bytes away, and from all that is due
\* by then or later.
LEMMA WakeUp ==
  ASSUME TypeOK, Counted, NEW w \in sleeping, call[w].window = windows,
         sleeping' = sleeping \ {w}, call' = call, windows' = windows
  PROVE  /\ IsFiniteSet(Asleep')
         /\ Cardinality(Asleep') = Cardinality(Asleep) - call[w].bytes
         /\ \A t \in Nat : t >= call[w].wake =>
              Cardinality(Due(t)') = Cardinality(Due(t)) - call[w].bytes
<1> DEFINE old == {w} \X (1 .. call[w].bytes)
<1>1. call \in [Workers -> Call] /\ w \in Workers /\ call[w].bytes \in Nat
  BY DEF TypeOK, Call
<1>2. old \subseteq Asleep /\ Asleep' = Asleep \ old
  BY <1>1 DEF Asleep, Sleepers
<1>3. IsFiniteSet(old) /\ Cardinality(old) = call[w].bytes
  BY <1>1, BytesOfCall
<1>4. \A b \in old : b[1] = w
  OBVIOUS
<1> HIDE DEF old
<1>5. ASSUME NEW S, IsFiniteSet(S), old \subseteq S
      PROVE  IsFiniteSet(S \ old) /\ Cardinality(S \ old) = Cardinality(S) - call[w].bytes
  <2>1. S \cap old = old
    BY <1>5
  <2>2. IsFiniteSet(S \ old) /\ Cardinality(S \ old) = Cardinality(S) - Cardinality(S \cap old)
    BY <1>5, FS_Difference, Zenon
  <2>3. QED
    BY <1>3, <2>1, <2>2
<1>6. IsFiniteSet(Asleep') /\ Cardinality(Asleep') = Cardinality(Asleep) - call[w].bytes
  BY <1>2, <1>5 DEF Counted
<1>7. ASSUME NEW t \in Nat, t >= call[w].wake
      PROVE  Cardinality(Due(t)') = Cardinality(Due(t)) - call[w].bytes
  <2>1. old \subseteq Due(t)
    BY <1>2, <1>4, <1>7 DEF Due
  <2>2. Due(t)' = Due(t) \ old
    BY <1>2 DEF Due
  <2>3. IsFiniteSet(Due(t))
    BY DueFinite
  <2>4. QED
    BY <1>5, <2>1, <2>2, <2>3
<1>8. QED
  BY <1>6, <1>7

\* Nothing that was asleep before belongs to a new window.
LEMMA NewWindow ==
  ASSUME TypeOK, WindowsPast, windows' = windows + 1, call' = call, sleeping' \subseteq sleeping
  PROVE  /\ IsFiniteSet(Asleep') /\ Cardinality(Asleep') = 0
         /\ \A t \in Nat : Cardinality(Due(t)') = 0
<1>1. Sleepers' = {}
  BY DEF Sleepers, WindowsPast, TypeOK, Call
<1>2. Asleep' = {} /\ \A t \in Nat : Due(t)' = {}
  BY <1>1 DEF Asleep, Due
<1>3. QED
  BY <1>2, FS_EmptySet

\* Whoever is due has its bytes among those that are.
LEMMA DueHasCall ==
  ASSUME TypeOK, Counted, NEW w \in sleeping, call[w].window = windows,
         NEW t \in Nat, t >= call[w].wake
  PROVE  call[w].bytes <= Cardinality(Due(t))
<1> DEFINE old == {w} \X (1 .. call[w].bytes)
<1>1. call \in [Workers -> Call] /\ w \in Workers /\ call[w].bytes \in Nat
  BY DEF TypeOK, Call
<1>2. old \in SUBSET Due(t)
  BY <1>1 DEF Due, Asleep, Sleepers
<1>3. Cardinality(old) = call[w].bytes
  BY <1>1, BytesOfCall
<1>4. IsFiniteSet(Due(t))
  BY DueFinite
<1> HIDE DEF old
<1>5. QED
  BY <1>2, <1>3, <1>4, FS_Subset

-----------------------------------------------------------------------------
(* Every step keeps the invariant.                                         *)

LEMMA InitIInv == Init => IInv
<1> SUFFICES ASSUME Init PROVE IInv
  OBVIOUS
<1>1. TypeOK /\ WindowsPast
  BY RateAssumption DEF Init, TypeOK, WindowsPast, Call
<1>2. Asleep = {} /\ \A t \in Nat : Due(t) = {}
  BY DEF Init, Asleep, Sleepers, Due
<1>3. /\ IsFiniteSet(Asleep) /\ Cardinality(Asleep) = 0
      /\ \A t \in Nat : Cardinality(Due(t)) = 0
  BY <1>2, FS_EmptySet
<1>4. Counted
  BY <1>3 DEF Counted, Init
<1>5. Covered
  <2> SUFFICES ASSUME NEW t \in Nat PROVE paid + Cardinality(Due(t)) < Rate * (t - window_start) + Rate
    BY DEF Covered
  <2>1. Rate * (t - 0) \in Nat /\ Rate \in Nat \ {0}
    BY RateTimes, RateAssumption
  <2>2. QED
    BY <1>3, <2>1 DEF Init
<1>6. ClosedCovered
  BY RateAssumption DEF ClosedCovered, Init
<1>7. QED
  BY <1>1, <1>4, <1>5, <1>6 DEF IInv

\* The call that consume() makes, up to its sleep.
CallOf(bytes) ==
  [bytes |-> bytes, elapsed |-> now - window_start,
   wake |-> now + Owed(consumed + bytes) - (now - window_start), window |-> windows]

\* It is due when the window will have paid for all that has been added to it.
LEMMA CallTypes ==
  ASSUME TypeOK, NEW bytes \in Sizes
  PROVE  /\ bytes \in Nat /\ bytes > 0 /\ consumed + bytes \in Nat
         /\ now - window_start \in Nat
         /\ CallOf(bytes).wake = window_start + Owed(consumed + bytes)
         /\ CallOf(bytes) \in Call
<1>1. bytes \in Nat /\ bytes > 0 /\ consumed + bytes \in Nat
  BY RateAssumption DEF TypeOK
<1>2. /\ now \in Nat /\ window_start \in Nat /\ window_start <= now
      /\ Owed(consumed + bytes) \in Nat
  BY <1>1, OwedBounds, RateAssumption DEF TypeOK
<1>3. /\ now - window_start \in Nat
      /\ now + Owed(consumed + bytes) - (now - window_start) = window_start + Owed(consumed + bytes)
  BY <1>2
<1>4. windows \in Nat \ {0}
  BY DEF TypeOK
<1>5. QED
  BY <1>1, <1>2, <1>3, <1>4 DEF CallOf, Call

LEMMA StepTypes == TypeOK /\ WindowsPast /\ [Next]_vars => TypeOK' /\ WindowsPast'
<1> SUFFICES ASSUME TypeOK, WindowsPast, [Next]_vars PROVE TypeOK' /\ WindowsPast'
  OBVIOUS
<1>1. /\ now \in Nat /\ window_start \in 0 .. now /\ now \in 0 .. now /\ MaxTime \in Nat
      /\ call \in [Workers -> Call] /\ windows \in Nat \ {0} /\ sleeping \subseteq Workers
  BY RateAssumption DEF TypeOK
<1>2. ASSUME NEW c \in Call, NEW total \in Nat, Return(c, total)
      PROVE  /\ consumed' \in Nat /\ paid' \in Nat /\ released' \in Nat /\ forgiven' \in Nat
             /\ window_start' \in 0 .. now
             /\ windows' \in {windows, windows + 1}
  <2>1. c.bytes \in Nat /\ c.elapsed \in Nat
    BY DEF Call
  <2>2. QED
    BY <1>1, <1>2, <2>1 DEF Return, TypeOK
<1>3. ASSUME NEW w \in Workers, NEW bytes \in Sizes, Consume(w, bytes)
      PROVE  TypeOK' /\ WindowsPast'
  <2>1. now' = now
    BY <1>3 DEF Consume
  <2>2. CASE Owed(consumed + bytes) > now - window_start
    <3>1. /\ consumed' = consumed + bytes /\ sleeping' = sleeping \cup {w}
          /\ call' = [call EXCEPT ![w] = CallOf(bytes)]
          /\ UNCHANGED <<window_start, windows, paid, released, forgiven>>
      BY <1>3, <2>2 DEF Consume, CallOf
    <3>2. CallOf(bytes) \in Call /\ CallOf(bytes).window = windows /\ consumed + bytes \in Nat
      BY CallTypes DEF CallOf
    <3>3. TypeOK'
      BY <1>1, <2>1, <3>1, <3>2 DEF TypeOK
    <3>4. WindowsPast'
      BY <1>1, <3>1, <3>2 DEF WindowsPast, Call
    <3>5. QED
      BY <3>3, <3>4
  <2>3. CASE ~(Owed(consumed + bytes) > now - window_start)
    <3>1. Return(CallOf(bytes), consumed + bytes) /\ UNCHANGED <<sleeping, call>>
      BY <1>3, <2>3 DEF Consume, CallOf
    <3>2. /\ consumed' \in Nat /\ paid' \in Nat /\ released' \in Nat /\ forgiven' \in Nat
          /\ window_start' \in 0 .. now /\ windows' \in {windows, windows + 1}
      BY <1>2, <3>1, CallTypes
    <3>3. TypeOK'
      BY <1>1, <2>1, <3>1, <3>2 DEF TypeOK
    <3>4. WindowsPast'
      BY <1>1, <3>1, <3>2 DEF WindowsPast, Call
    <3>5. QED
      BY <3>3, <3>4
  <2>4. QED
    BY <2>2, <2>3
<1>4. ASSUME NEW w \in Workers, Wake(w) PROVE TypeOK' /\ WindowsPast'
  <2>1. /\ now' = now /\ call' = call /\ sleeping' = sleeping \ {w}
        /\ Return(call[w], consumed) /\ call[w] \in Call /\ consumed \in Nat
    BY <1>4 DEF Wake, TypeOK
  <2>2. /\ consumed' \in Nat /\ paid' \in Nat /\ released' \in Nat /\ forgiven' \in Nat
        /\ window_start' \in 0 .. now /\ windows' \in {windows, windows + 1}
    BY <1>2, <2>1
  <2>3. TypeOK'
    BY <1>1, <2>1, <2>2 DEF TypeOK
  <2>4. WindowsPast'
    BY <1>1, <2>1, <2>2 DEF WindowsPast, Call
  <2>5. QED
    BY <2>3, <2>4
<1>5. CASE Tick
  BY <1>1, <1>5 DEF Tick, TypeOK, WindowsPast
<1>6. CASE UNCHANGED vars
  BY <1>6 DEF vars, TypeOK, WindowsPast
<1>7. QED
  BY <1>3, <1>4, <1>5, <1>6 DEF Next

\* What a call returns with is covered by the age of its window.
CoversCall(c) ==
  c.window = windows => paid + c.bytes < Rate * (now - window_start) + Rate

Caps == Counted /\ Covered /\ ClosedCovered

\* A call that replaces the window closes its account.
LEMMA WindowReplaced ==
  ASSUME IInv, NEW c \in Call, NEW total, Return(c, total), c.elapsed > Window,
         CoversCall(c), call' = call, sleeping' \subseteq sleeping, now' = now
  PROVE  Caps'
<1>1. /\ window_start' = now /\ consumed' = 0 /\ paid' = 0 /\ windows' = windows + 1
      /\ released' = released + c.bytes
      /\ forgiven' = IF c.window = windows THEN forgiven ELSE forgiven + c.bytes
  BY DEF Return
<1>2. /\ now \in Nat /\ window_start \in Nat /\ window_start <= now /\ windows \in Nat \ {0}
      /\ paid \in Nat /\ released \in Nat /\ forgiven \in Nat /\ c.bytes \in Nat
      /\ Rate \in Nat \ {0}
  BY RateAssumption DEF IInv, TypeOK, Call
<1>3. /\ IsFiniteSet(Asleep') /\ Cardinality(Asleep') = 0
      /\ \A t \in Nat : Cardinality(Due(t)') = 0
  BY <1>1, NewWindow DEF IInv
<1>4. Counted'
  BY <1>1, <1>3 DEF Counted
<1>5. Covered'
  <2> SUFFICES ASSUME NEW t \in Nat, t >= now
               PROVE  0 + Cardinality(Due(t)') < Rate * (t - now) + Rate
    BY <1>1 DEF Covered
  <2>1. Rate * (t - now) \in Nat
    BY <1>2, RateTimes
  <2>2. QED
    BY <1>2, <1>3, <2>1
<1>6. ClosedCovered'
  <2>1. /\ Rate * now \in Nat /\ Rate * window_start \in Nat
        /\ Rate * (now - window_start) = Rate * now - Rate * window_start
    BY <1>2, RateTimes
  <2>2. /\ windows * (Rate - 1) = (windows - 1) * (Rate - 1) + (Rate - 1)
        /\ (windows - 1) * (Rate - 1) \in Nat
    BY <1>2, Roundings
  <2>3. released <= forgiven + paid + Rate * window_start + (windows - 1) * (Rate - 1)
    BY DEF IInv, ClosedCovered
  <2>4. c.window = windows => paid + c.bytes < Rate * now - Rate * window_start + Rate
    BY <2>1 DEF CoversCall
  <2>5. paid < Rate * now - Rate * window_start + Rate
    BY <2>1, PaidCovered DEF IInv
  <2>6. released' <= forgiven' + Rate * now + windows * (Rate - 1)
    BY <1>1, <1>2, <2>1, <2>2, <2>3, <2>4, <2>5
  <2>7. windows' - 1 = windows
    BY <1>1, <1>2
  <2>8. QED
    BY <1>1, <1>2, <2>1, <2>2, <2>6, <2>7 DEF ClosedCovered
<1>7. QED
  BY <1>4, <1>5, <1>6 DEF Caps

\* A call that leaves the window as it is adds to what this one or an earlier one has let
\* through.
LEMMA WindowKept ==
  ASSUME IInv, NEW c \in Call, NEW total, Return(c, total), ~(c.elapsed > Window)
  PROVE  /\ window_start' = window_start /\ windows' = windows /\ consumed' = total
         /\ paid' = IF c.window = windows THEN paid + c.bytes ELSE paid
         /\ ClosedCovered'
<1>1. /\ window_start' = window_start /\ windows' = windows /\ consumed' = total
      /\ paid' = IF c.window = windows THEN paid + c.bytes ELSE paid
      /\ released' = released + c.bytes
      /\ forgiven' = IF c.window = windows THEN forgiven ELSE forgiven + c.bytes
  BY DEF Return
<1>2. /\ window_start \in Nat /\ windows \in Nat \ {0} /\ Rate * window_start \in Nat
      /\ paid \in Nat /\ released \in Nat /\ forgiven \in Nat /\ c.bytes \in Nat
      /\ (windows - 1) * (Rate - 1) \in Nat
  BY RateTimes, Roundings, RateAssumption DEF IInv, TypeOK, Call
<1>3. ClosedCovered'
  BY <1>1, <1>2 DEF IInv, ClosedCovered
<1>4. QED
  BY <1>1, <1>3

LEMMA StepConsume ==
  ASSUME IInv, NEW w \in Workers, NEW bytes \in Sizes, Consume(w, bytes)
  PROVE  Caps'
<1> DEFINE c == CallOf(bytes)
           total == consumed + bytes
           asleep == Cardinality(Asleep)
<1>1. /\ bytes \in Nat /\ total \in Nat /\ c.wake = window_start + Owed(total)
      /\ c \in Call /\ c.window = windows /\ c.bytes = bytes /\ c.elapsed = now - window_start
  BY CallTypes DEF CallOf, IInv
<1>2. /\ now \in Nat /\ window_start \in Nat /\ window_start <= now
      /\ paid \in Nat /\ consumed \in Nat /\ Rate \in Nat \ {0}
  BY RateAssumption DEF IInv, TypeOK
<1>3. /\ Owed(total) \in Nat /\ total < Rate * Owed(total) + Rate
      /\ Rate * Owed(total) \in Nat
  BY <1>1, <1>2, OwedBounds, RateTimes
<1>4. /\ asleep \in Nat /\ paid + asleep <= consumed
      /\ \A t \in Nat : Cardinality(Due(t)) \in Nat /\ Cardinality(Due(t)) <= asleep
  BY DueFinite DEF IInv, Counted
<1>5. w \notin sleeping /\ now' = now
  BY DEF Consume
<1> HIDE DEF c, total, asleep
<1>6. ASSUME NEW t \in Nat, Owed(total) <= t - window_start
      PROVE  total < Rate * (t - window_start) + Rate
  <2>1. t - window_start \in Nat
    BY <1>2, <1>3, <1>6
  <2>2. Rate * Owed(total) <= Rate * (t - window_start) /\ Rate * (t - window_start) \in Nat
    BY <1>3, <1>6, <2>1, RateTimes
  <2>3. QED
    BY <1>1, <1>2, <1>3, <2>2
<1>7. CASE Owed(total) > now - window_start
  <2>1. /\ consumed' = total /\ sleeping' = sleeping \cup {w} /\ call' = [call EXCEPT ![w] = c]
        /\ UNCHANGED <<window_start, windows, paid, released, forgiven>>
    BY <1>7 DEF Consume, CallOf, c, total
  <2>2. /\ IsFiniteSet(Asleep') /\ Cardinality(Asleep') = asleep + bytes
        /\ \A t \in Nat : t < c.wake => Due(t)' = Due(t)
    BY <1>1, <1>5, <2>1, FallAsleep DEF IInv, asleep
  <2>3. Counted'
    BY <1>1, <1>2, <1>4, <2>1, <2>2 DEF Counted, total
  <2>4. Covered'
    <3> SUFFICES ASSUME NEW t \in Nat, t >= now
                 PROVE  paid + Cardinality(Due(t)') < Rate * (t - window_start) + Rate
      BY <1>5, <2>1 DEF Covered
    <3>1. CASE t < c.wake
      BY <2>2, <3>1 DEF IInv, Covered
    <3>2. CASE t >= c.wake
      <4>1. Cardinality(Due(t)') \in Nat /\ Cardinality(Due(t)') <= asleep + bytes
        <5>1. Due(t)' \in SUBSET (Asleep')
          BY DEF Due
        <5>2. QED
          BY <2>2, <5>1, FS_Subset, FS_CardinalityType
      <4>2. total < Rate * (t - window_start) + Rate
        BY <1>1, <1>2, <1>3, <1>6, <3>2
      <4>3. t - window_start \in Nat /\ Rate * (t - window_start) \in Nat
        BY <1>2, RateTimes
      <4>4. paid + asleep + bytes <= total
        BY <1>1, <1>2, <1>4 DEF total
      <4>5. QED
        BY <1>1, <1>2, <1>4, <4>1, <4>2, <4>3, <4>4
    <3>3. QED
      BY <1>1, <1>2, <1>3, <3>1, <3>2
  <2>5. ClosedCovered'
    BY <2>1 DEF ClosedCovered, IInv
  <2>6. QED
    BY <2>3, <2>4, <2>5 DEF Caps
<1>8. CASE ~(Owed(total) > now - window_start)
  <2>1. Return(c, total) /\ call' = call /\ sleeping' = sleeping
    BY <1>8 DEF Consume, CallOf, c, total
  <2>2. \A t \in Nat : t >= now => total < Rate * (t - window_start) + Rate
    <3> SUFFICES ASSUME NEW t \in Nat, t >= now PROVE Owed(total) <= t - window_start
      BY <1>6
    <3>1. QED
      BY <1>2, <1>3, <1>8
  <2>3. CASE c.elapsed > Window
    <3>1. total < Rate * (now - window_start) + Rate
      BY <1>2, <2>2
    <3>2. paid + bytes <= total /\ Rate * (now - window_start) \in Nat
      BY <1>1, <1>2, <1>4, RateTimes DEF total
    <3>3. CoversCall(c)
      BY <1>1, <1>2, <3>1, <3>2 DEF CoversCall
    <3>4. QED
      BY <1>1, <1>5, <2>1, <2>3, <3>3, WindowReplaced
  <2>4. CASE ~(c.elapsed > Window)
    <3>1. /\ window_start' = window_start /\ windows' = windows /\ consumed' = total
          /\ paid' = paid + bytes /\ ClosedCovered'
      BY <1>1, <2>1, <2>4, WindowKept
    <3>2. Asleep' = Asleep /\ \A t \in Nat : Due(t)' = Due(t)
      BY <2>1, <3>1 DEF Asleep, Sleepers, Due
    <3>3. Counted'
      BY <1>1, <1>2, <1>4, <3>1, <3>2 DEF Counted, IInv, asleep, total
    <3>4. Covered'
      <4> SUFFICES ASSUME NEW t \in Nat, t >= now
                   PROVE  paid + bytes + Cardinality(Due(t)) < Rate * (t - window_start) + Rate
        BY <1>5, <3>1, <3>2 DEF Covered
      <4>1. total < Rate * (t - window_start) + Rate
        BY <2>2
      <4>2. t - window_start \in Nat /\ Rate * (t - window_start) \in Nat
        BY <1>2, RateTimes
      <4>3. Cardinality(Due(t)) \in Nat /\ paid + bytes + Cardinality(Due(t)) <= total
        BY <1>1, <1>2, <1>4 DEF total
      <4>4. QED
        BY <1>1, <1>2, <4>1, <4>2, <4>3
    <3>5. QED
      BY <3>1, <3>3, <3>4 DEF Caps
  <2>5. QED
    BY <2>3, <2>4
<1>9. QED
  BY <1>7, <1>8

LEMMA StepWake == ASSUME IInv, NEW w \in Workers, Wake(w) PROVE Caps'
<1> DEFINE c == call[w]
<1>1. /\ w \in sleeping /\ now >= c.wake /\ sleeping' = sleeping \ {w} /\ Return(c, consumed)
      /\ now' = now /\ call' = call
  BY DEF Wake
<1>2. /\ c \in Call /\ c.bytes \in Nat /\ c.wake \in Nat
      /\ now \in Nat /\ window_start \in Nat /\ window_start <= now
      /\ paid \in Nat /\ consumed \in Nat
  BY RateAssumption DEF IInv, TypeOK, Call
<1>3. /\ Cardinality(Asleep) \in Nat /\ paid + Cardinality(Asleep) <= consumed
      /\ \A t \in Nat : Cardinality(Due(t)) \in Nat
  BY DueFinite DEF IInv, Counted
<1> HIDE DEF c
<1>4. CASE c.elapsed > Window
  <2>1. ASSUME c.window = windows PROVE paid + c.bytes < Rate * (now - window_start) + Rate
    <3>1. c.bytes <= Cardinality(Due(now))
      BY <1>1, <1>2, <2>1, DueHasCall DEF IInv, c
    <3>2. paid + Cardinality(Due(now)) < Rate * (now - window_start) + Rate
      BY <1>2 DEF IInv, Covered
    <3>3. Rate * (now - window_start) + Rate \in Nat
      BY <1>2, RateTimes, RateAssumption
    <3>4. QED
      BY <1>2, <1>3, <3>1, <3>2, <3>3
  <2>2. QED
    BY <1>1, <1>2, <1>4, <2>1, WindowReplaced DEF CoversCall
<1>5. CASE ~(c.elapsed > Window)
  <2>1. /\ window_start' = window_start /\ windows' = windows /\ consumed' = consumed
        /\ paid' = IF c.window = windows THEN paid + c.bytes ELSE paid
        /\ ClosedCovered'
    BY <1>1, <1>2, <1>5, WindowKept
  <2>2. CASE c.window = windows
    <3>1. /\ IsFiniteSet(Asleep') /\ Cardinality(Asleep') = Cardinality(Asleep) - c.bytes
          /\ \A t \in Nat : t >= c.wake =>
               Cardinality(Due(t)') = Cardinality(Due(t)) - c.bytes
      BY <1>1, <2>1, <2>2, WakeUp DEF IInv, c
    <3>2. Counted'
      BY <1>2, <1>3, <2>1, <2>2, <3>1 DEF Counted
    <3>3. Covered'
      <4> SUFFICES ASSUME NEW t \in Nat, t >= now
                   PROVE  paid + c.bytes + Cardinality(Due(t)') < Rate * (t - window_start) + Rate
        BY <1>1, <2>1, <2>2 DEF Covered
      <4>1. Cardinality(Due(t)') = Cardinality(Due(t)) - c.bytes
        BY <1>1, <1>2, <3>1
      <4>2. paid + Cardinality(Due(t)) < Rate * (t - window_start) + Rate
        BY DEF IInv, Covered
      <4>3. QED
        BY <1>2, <1>3, <4>1, <4>2
    <3>4. QED
      BY <2>1, <3>2, <3>3 DEF Caps
  <2>3. CASE c.window # windows
    <3>1. Sleepers' = Sleepers
      BY <1>1, <2>1, <2>3 DEF Sleepers, c
    <3>2. Asleep' = Asleep /\ \A t \in Nat : Due(t)' = Due(t)
      BY <1>1, <3>1 DEF Asleep, Sleepers, Due
    <3>3. QED
      BY <1>1, <2>1, <2>3, <3>2 DEF Caps, Counted, Covered, IInv
  <2>4. QED
    BY <2>2, <2>3
<1>6. QED
  BY <1>4, <1>5

LEMMA StepIInv == IInv /\ [Next]_vars => IInv'
<1> SUFFICES ASSUME IInv, [Next]_vars PROVE Caps'
  BY StepTypes DEF IInv, Caps
<1>1. ASSUME window_start' = window_start, consumed' = consumed, sleeping' = sleeping, call' = call,
             windows' = windows, paid' = paid, released' = released, forgiven' = forgiven,
             now' \in Nat, now' >= now
      PROVE  Caps'
  <2>1. Asleep' = Asleep /\ \A t \in Nat : Due(t)' = Due(t)
    BY <1>1 DEF Asleep, Sleepers, Due
  <2>2. now \in Nat
    BY RateAssumption DEF IInv, TypeOK
  <2>3. \A t \in Nat : t >= now' => t >= now
    BY <1>1, <2>2
  <2>4. QED
    BY <1>1, <2>1, <2>3 DEF Caps, Counted, Covered, ClosedCovered, IInv
<1>2. now \in Nat
  BY RateAssumption DEF IInv, TypeOK
<1>3. CASE Tick
  BY <1>1, <1>2, <1>3 DEF Tick
<1>4. CASE UNCHANGED vars
  BY <1>1, <1>2, <1>4 DEF vars
<1>5. QED
  BY <1>3, <1>4, StepConsume, StepWake DEF Next

LEMMA Invariance == Spec => []IInv
BY InitIInv, StepIInv, PTL DEF Spec

-----------------------------------------------------------------------------
(* The results.                                                            *)

\* The variables have their types: in particular a call that has to sleep is due after
\* the window began, so no time in consume() is negative.
THEOREM TypeCorrect == Spec => []TypeOK
<1>1. IInv => TypeOK
  BY DEF IInv
<1>2. QED
  BY <1>1, Invariance, PTL

\* Whatever the number of workers and in whichever order they wake, the calls of one
\* window of consume() never get ahead of the limit by more than a rounding.
THEOREM WindowNeverAhead == Spec => []WindowCap
<1>1. IInv => WindowCap
  BY PaidCovered DEF IInv, WindowCap
<1>2. QED
  BY <1>1, Invariance, PTL

\* A run never gets ahead of the limit by more than what outlived its window in consume()
\* and one rounding for each window, however often the window is replaced.
THEOREM RunAheadByForgiven == Spec => []RunCap
<1>1. IInv => RunCap
  <2> SUFFICES ASSUME IInv PROVE RunCap
    OBVIOUS
  <2>1. /\ now \in Nat /\ window_start \in Nat /\ window_start <= now /\ windows \in Nat \ {0}
        /\ paid \in Nat /\ released \in Nat /\ forgiven \in Nat /\ Rate \in Nat \ {0}
    BY RateAssumption DEF IInv, TypeOK
  <2>2. /\ Rate * now \in Nat /\ Rate * window_start \in Nat
        /\ Rate * (now - window_start) = Rate * now - Rate * window_start
    BY <2>1, RateTimes
  <2>3. /\ windows * (Rate - 1) = (windows - 1) * (Rate - 1) + (Rate - 1)
        /\ (windows - 1) * (Rate - 1) \in Nat
    BY <2>1, Roundings
  <2>4. paid < Rate * now - Rate * window_start + Rate
    BY <2>2, PaidCovered DEF IInv
  <2>5. released <= forgiven + paid + Rate * window_start + (windows - 1) * (Rate - 1)
    BY DEF IInv, ClosedCovered
  <2>6. QED
    BY <2>1, <2>2, <2>3, <2>4, <2>5 DEF RunCap
<1>2. QED
  BY <1>1, Invariance, PTL

-----------------------------------------------------------------------------
(* One worker alone.                                                       *)

\* Nothing has outlived its window.
NothingOutlived == forgiven = 0 /\ \A w \in sleeping : call[w].window = windows

\* README.md:199 promises a cap of the total rate.  With --concurrency 1 consume() keeps
\* it: nobody else can replace the window of a call that sleeps.
THEOREM OneWorkerKeepsCap ==
  ASSUME \A v, w \in Workers : v = w
  PROVE  Spec => []CapsWholeRun
<1>1. Init => NothingOutlived
  BY DEF Init, NothingOutlived
<1>2. IInv /\ NothingOutlived /\ [Next]_vars => NothingOutlived'
  <2> SUFFICES ASSUME IInv, NothingOutlived, [Next]_vars PROVE NothingOutlived'
    OBVIOUS
  <2>1. sleeping \subseteq Workers /\ call \in [Workers -> Call]
    BY DEF IInv, TypeOK
  <2>2. ASSUME NEW w \in Workers, NEW bytes \in Sizes, Consume(w, bytes) PROVE NothingOutlived'
    <3>1. sleeping = {}
      BY <2>1, <2>2 DEF Consume
    <3>2. CASE Owed(consumed + bytes) > now - window_start
      <4>1. /\ sleeping' = {w} /\ call' = [call EXCEPT ![w] = CallOf(bytes)]
            /\ windows' = windows /\ forgiven' = forgiven
        BY <2>2, <3>1, <3>2 DEF Consume, CallOf
      <4>2. call'[w].window = windows
        BY <2>1, <4>1 DEF CallOf
      <4>3. QED
        BY <4>1, <4>2 DEF NothingOutlived
    <3>3. CASE ~(Owed(consumed + bytes) > now - window_start)
      <4>1. Return(CallOf(bytes), consumed + bytes) /\ sleeping' = sleeping
        BY <2>2, <3>3 DEF Consume, CallOf
      <4>2. QED
        BY <3>1, <4>1 DEF NothingOutlived, Return, CallOf
    <3>4. QED
      BY <3>2, <3>3
  <2>3. ASSUME NEW w \in Workers, Wake(w) PROVE NothingOutlived'
    <3>1. sleeping' = {} /\ w \in sleeping /\ Return(call[w], consumed)
      BY <2>1, <2>3 DEF Wake
    <3>2. QED
      BY <3>1 DEF NothingOutlived, Return
  <2>4. CASE Tick \/ UNCHANGED vars
    BY <2>4 DEF Tick, vars, NothingOutlived
  <2>5. QED
    BY <2>2, <2>3, <2>4 DEF Next
<1>3. IInv /\ NothingOutlived /\ RunCap => CapsWholeRun
  <2> SUFFICES ASSUME IInv, forgiven = 0, RunCap PROVE CapsWholeRun
    BY DEF NothingOutlived
  <2>1. /\ Rate * now \in Nat /\ windows * (Rate - 1) \in Nat /\ released \in Nat
    <3>1. now \in Nat /\ windows \in Nat \ {0} /\ released \in Nat /\ Rate \in Nat \ {0}
      BY RateAssumption DEF IInv, TypeOK
    <3>2. QED
      BY <3>1
  <2>2. QED
    BY <2>1 DEF RunCap, CapsWholeRun
<1>4. QED
  BY <1>1, <1>2, <1>3, Invariance, RunAheadByForgiven, PTL DEF Spec
=============================================================================
