---------------------------- MODULE RateLimiter -----------------------------
(***************************************************************************)
(* The rate limiter that the workers of a crawl share (crawler.cpp): each  *)
(* of them calls consume() with the size of what it has just downloaded,   *)
(* and may be sent to sleep there.                                         *)
(*                                                                         *)
(* The mutex is given back while a worker sleeps, so consume() is two      *)
(* actions: what it does up to the sleep, and the rest.  A call that need  *)
(* not sleep does both at once, under the same lock.                       *)
(*                                                                         *)
(* Time is counted in ticks of any length and bytes in units of any size;  *)
(* Rate is how many units a tick pays for.  A limit of zero, which turns   *)
(* the limiter off, is left out.                                           *)
(*                                                                         *)
(* Bounds: the clock stops at MaxTime, and no sleep is due after it.       *)
(***************************************************************************)
EXTENDS Integers

CONSTANTS
  Workers,
  Sizes,      \* the sizes of downloads
  Rate,       \* --rate-limit
  Window,     \* how old a window grows before it is replaced
  MaxTime

ASSUME RateAssumption ==
  /\ Sizes \subseteq Nat \ {0}
  /\ Rate \in Nat \ {0}
  /\ Window \in Nat /\ MaxTime \in Nat

VARIABLES
  now,            \* the clock
  window_start, consumed,
  sleeping,       \* the workers in sleep_for()
  call,           \* their calls
  windows,        \* ghost: the number of windows so far
  paid,           \* ghost: what this window's calls have returned with
  released,       \* ghost: what all calls of the run have
  forgiven        \* ghost: and those that outlived their window

vars == <<now, window_start, consumed, sleeping, call, windows, paid, released, forgiven>>

\* What a call keeps while it sleeps: its bytes, the age of the window that it has
\* seen, when it is due, and (for the ghosts) in which window it was made.
Call == [bytes : Nat, elapsed : Nat, wake : Nat, window : Nat \ {0}]

TypeOK ==
  /\ now \in 0 .. MaxTime
  /\ window_start \in 0 .. now
  /\ consumed \in Nat
  /\ sleeping \subseteq Workers
  /\ call \in [Workers -> Call]
  /\ windows \in Nat \ {0}
  /\ paid \in Nat /\ released \in Nat /\ forgiven \in Nat

Init ==
  /\ now = 0 /\ window_start = 0 /\ consumed = 0
  /\ sleeping = {}
  /\ call = [w \in Workers |-> [bytes |-> 0, elapsed |-> 0, wake |-> 0, window |-> 1]]
  /\ windows = 1
  /\ paid = 0 /\ released = 0 /\ forgiven = 0

-----------------------------------------------------------------------------

\* How long so many bytes should have taken, in whole ticks.
Owed(bytes) == bytes \div Rate

\* Mutant of Return: the bytes are forgotten, and the window goes on.
ReturnKeepsStart(c, total) ==
  /\ released' = released + c.bytes
  /\ forgiven' = IF c.window = windows THEN forgiven ELSE forgiven + c.bytes
  /\ IF c.elapsed > Window
     THEN consumed' = 0 /\ windows' = windows + 1 /\ paid' = 0
     ELSE /\ consumed' = total
          /\ paid' = IF c.window = windows THEN paid + c.bytes ELSE paid
          /\ windows' = windows
  /\ window_start' = window_start

\* The end of consume(): the age that was taken before the sleep decides whether the
\* window is replaced, also if another worker has replaced it in between.
Return(c, total) ==
  /\ released' = released + c.bytes
  /\ forgiven' = IF c.window = windows THEN forgiven ELSE forgiven + c.bytes
  /\ IF c.elapsed > Window
     THEN /\ window_start' = now
          /\ consumed' = 0 /\ paid' = 0
          /\ windows' = windows + 1
     ELSE /\ consumed' = total
          /\ paid' = IF c.window = windows THEN paid + c.bytes ELSE paid
          /\ UNCHANGED <<window_start, windows>>

\* Mutant of Consume: a worker waits for its own bytes only.
ConsumeAlone(w, bytes) ==
  LET elapsed == now - window_start
      c == [bytes |-> bytes, elapsed |-> elapsed, wake |-> now + Owed(bytes) - elapsed,
            window |-> windows]
  IN
  /\ w \notin sleeping
  /\ IF Owed(bytes) > elapsed
     THEN /\ c.wake <= MaxTime
          /\ consumed' = consumed + bytes
          /\ sleeping' = sleeping \cup {w}
          /\ call' = [call EXCEPT ![w] = c]
          /\ UNCHANGED <<window_start, windows, paid, released, forgiven>>
     ELSE /\ Return([c EXCEPT !.wake = 0], consumed + bytes)
          /\ UNCHANGED <<sleeping, call>>
  /\ UNCHANGED now

\* consume(), up to the sleep, or to its end.
Consume(w, bytes) ==
  LET total == consumed + bytes
      elapsed == now - window_start
      c == [bytes |-> bytes, elapsed |-> elapsed, wake |-> now + Owed(total) - elapsed,
            window |-> windows]
  IN
  /\ w \notin sleeping
  /\ IF Owed(total) > elapsed
     THEN /\ c.wake <= MaxTime
          /\ consumed' = total
          /\ sleeping' = sleeping \cup {w}
          /\ call' = [call EXCEPT ![w] = c]
          /\ UNCHANGED <<window_start, windows, paid, released, forgiven>>
     ELSE /\ Return(c, total)
          /\ UNCHANGED <<sleeping, call>>
  /\ UNCHANGED now

\* The rest of consume(), once the worker has slept and has the lock again.
Wake(w) ==
  /\ w \in sleeping
  /\ now >= call[w].wake
  /\ sleeping' = sleeping \ {w}
  /\ Return(call[w], consumed)
  /\ UNCHANGED <<now, call>>

Tick ==
  /\ now < MaxTime
  /\ now' = now + 1
  /\ UNCHANGED <<window_start, consumed, sleeping, call, windows, paid, released, forgiven>>

Next ==
  \/ \E w \in Workers, bytes \in Sizes : Consume(w, bytes)
  \/ \E w \in Workers : Wake(w)
  \/ Tick

Spec == Init /\ [][Next]_vars

-----------------------------------------------------------------------------

\* What the calls of one window have returned with, however many workers made them and
\* in whichever order they woke, is covered by the age of the window, up to a rounding.
WindowCap == paid < Rate * (now - window_start) + Rate

\* What a run has downloaded never exceeds its time at the limit by more than what was
\* still asleep when its window was replaced, and one rounding for each window.  With
\* one worker nothing is ever asleep then, and the cap is kept.
RunCap == released <= Rate * now + forgiven + windows * (Rate - 1)

\* "Cap total download rate" (README.md:199): whatever the number of workers, a run has
\* downloaded what its time pays for, and one rounding for each window.
CapsWholeRun == released <= Rate * now + windows * (Rate - 1)
=============================================================================
