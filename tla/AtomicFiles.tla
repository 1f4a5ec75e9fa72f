----------------------------- MODULE AtomicFiles ----------------------------
(***************************************************************************)
(* What writing files atomically promises: a file changes from one whole   *)
(* content to another at one moment, between the call and the return of    *)
(* the write that brings the new one.  A write that fails never leaves its *)
(* own content; at worst it has removed the file it was to replace.  A     *)
(* crash ends the writes in progress and changes no file.                  *)
(*                                                                         *)
(* FileStore implements this module, as long as only one process writes.   *)
(***************************************************************************)
CONSTANTS
  Writers,   \* who may write
  Paths,     \* where
  Data,      \* what
  None       \* no file, no call, no answer

VARIABLES
  files,     \* the content of each file
  pending,   \* the call each writer is in
  answer     \* what its last call returned

vars == <<files, pending, answer>>

Call == [path : Paths, data : Data]

TypeOK ==
  /\ files \in [Paths -> Data \cup {None}]
  /\ pending \in [Writers -> Call \cup {None}]
  /\ answer \in [Writers -> {"true", "false", None}]

Init ==
  /\ files = [p \in Paths |-> None]
  /\ pending = [w \in Writers |-> None]
  /\ answer = [w \in Writers |-> None]

Begin(w, p, d) ==
  /\ pending[w] = None
  /\ pending' = [pending EXCEPT ![w] = [path |-> p, data |-> d]]
  /\ answer' = [answer EXCEPT ![w] = None]
  /\ UNCHANGED files

Return(w, result) ==
  /\ pending[w] # None
  /\ pending' = [pending EXCEPT ![w] = None]
  /\ answer' = [answer EXCEPT ![w] = result]

\* The new content appears.
Succeed(w) ==
  /\ Return(w, "true")
  /\ files' = [files EXCEPT ![pending[w].path] = pending[w].data]

Fail(w) == Return(w, "false") /\ UNCHANGED files

\* The old content is given up for the new one, which may never appear.
GiveUp(w) ==
  /\ pending[w] # None
  /\ files' = [files EXCEPT ![pending[w].path] = None]
  /\ UNCHANGED <<pending, answer>>

Crash(ws) ==
  /\ pending' = [w \in Writers |-> IF w \in ws THEN None ELSE pending[w]]
  /\ answer' = [w \in Writers |-> IF w \in ws THEN None ELSE answer[w]]
  /\ UNCHANGED files

Next ==
  \/ \E w \in Writers :
       \/ \E p \in Paths, d \in Data : Begin(w, p, d)
       \/ Succeed(w) \/ Fail(w) \/ GiveUp(w)
  \/ \E ws \in SUBSET Writers : Crash(ws)

Spec == Init /\ [][Next]_vars
=============================================================================
