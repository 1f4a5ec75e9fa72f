------------------------------ MODULE FileStore -----------------------------
(***************************************************************************)
(* write_file_atomic() (fsutil.cpp), system call by system call, in the    *)
(* threads of one or more processes.                                       *)
(*                                                                         *)
(* A directory maps names to inodes, and an inode has content; who has     *)
(* opened a file holds on to the inode and not to the name.  A process may *)
(* be killed between any two calls, and is then started again with a new   *)
(* ticket counter in a directory in which temporary files were left.       *)
(*                                                                         *)
(* A temporary file can always be removed, and the old file may be.        *)
(*                                                                         *)
(* Bounds: a process takes at most MaxTickets tickets before it ends; a    *)
(* file is written in BlockCount pieces.                                   *)
(***************************************************************************)
EXTENDS Naturals, FiniteSets

CONSTANTS
  Processes,     \* the surl processes that write
  Threads,       \* their worker threads
  Paths,         \* the files that are written
  Data,          \* the contents that are written
  Inodes,        \* the numbers of the inodes of the file system
  BlockCount,    \* pieces of a content
  MaxTickets,    \* tickets a process takes
  None           \* no inode, no content, no call, no answer

ASSUME FileStoreAssumption ==
  /\ BlockCount \in Nat \ {0}
  /\ MaxTickets \in Nat
  /\ Inodes \subseteq Nat
  /\ None \notin Nat \cup Data
  /\ None \notin [path : Paths, data : Data]
  /\ Paths \cap (Paths \X Nat) = {}

Writers == Processes \X Threads
ThreadsOf(p) == {p} \X Threads

Blocks == 1 .. BlockCount
Tickets == 0 .. MaxTickets - 1

\* A temporary name is the path and the ticket.
Temps == Paths \X Tickets
Names == Paths \cup Temps

VARIABLES
  dir,        \* the inode of each name
  content,    \* the blocks of each inode
  pc,         \* where in write_file_atomic() each writer is
  path,       \* its arguments
  data,
  ticket,     \* its ticket
  handle,     \* the inode it has opened
  written,    \* how many blocks it has written
  answer,     \* what its last call returned
  g_temp_counter, \* the next ticket of each process
  leftover,   \* temporary names of killed writers
  refused     \* files that rename() has refused to replace

callVars == <<path, data, ticket>>
openVars == <<handle, written>>
vars == <<dir, content, pc, callVars, openVars, answer, g_temp_counter, leftover, refused>>

Steps == {"idle", "called", "open", "write", "rename", "remove", "again", "discard"}

TypeOK ==
  /\ dir \in [Names -> Inodes \cup {None}]
  /\ content \in [Inodes -> [Blocks -> Data \cup {None}]]
  /\ pc \in [Writers -> Steps]
  /\ path \in [Writers -> Paths \cup {None}]
  /\ data \in [Writers -> Data \cup {None}]
  /\ ticket \in [Writers -> Tickets \cup {None}]
  /\ handle \in [Writers -> Inodes \cup {None}]
  /\ written \in [Writers -> 0 .. BlockCount]
  /\ answer \in [Writers -> {"true", "false", None}]
  /\ g_temp_counter \in [Processes -> 0 .. MaxTickets]
  /\ leftover \subseteq Temps
  /\ refused \subseteq Paths

Empty == [b \in Blocks |-> None]
Whole(d) == [b \in Blocks |-> d]

Init ==
  /\ dir = [n \in Names |-> None]
  /\ content = [i \in Inodes |-> Empty]
  /\ pc = [w \in Writers |-> "idle"]
  /\ path = [w \in Writers |-> None]
  /\ data = [w \in Writers |-> None]
  /\ ticket = [w \in Writers |-> None]
  /\ handle = [w \in Writers |-> None]
  /\ written = [w \in Writers |-> 0]
  /\ answer = [w \in Writers |-> None]
  /\ g_temp_counter = [p \in Processes |-> 0]
  /\ leftover = {}
  /\ refused = {}

-----------------------------------------------------------------------------
(* write_file_atomic().                                                    *)

Temp(w) == <<path[w], ticket[w]>>

\* An inode that has no name and that nobody has opened is free.
Free(i) ==
  /\ \A n \in Names : dir[n] # i
  /\ \A w \in Writers : handle[w] # i

Goto(w, step) == pc' = [pc EXCEPT ![w] = step]

Call(w, p, d) ==
  /\ pc[w] = "idle"
  /\ Goto(w, "called")
  /\ path' = [path EXCEPT ![w] = p]
  /\ data' = [data EXCEPT ![w] = d]
  /\ answer' = [answer EXCEPT ![w] = None]
  /\ UNCHANGED <<dir, content, ticket, openVars, g_temp_counter, leftover, refused>>

Return(w, result) ==
  /\ Goto(w, "idle")
  /\ answer' = [answer EXCEPT ![w] = result]
  /\ path' = [path EXCEPT ![w] = None]
  /\ data' = [data EXCEPT ![w] = None]
  /\ ticket' = [ticket EXCEPT ![w] = None]

\* Mutant of TakeTicket: the counter is read, but not advanced.
TakeTicketOnly(w) ==
  /\ pc[w] = "called"
  /\ g_temp_counter[w[1]] < MaxTickets
  /\ ticket' = [ticket EXCEPT ![w] = g_temp_counter[w[1]]]
  /\ Goto(w, "open")
  /\ UNCHANGED <<dir, content, path, data, openVars, answer, g_temp_counter, leftover, refused>>

\* The parent directory is there, or can be created; fetch_add().
TakeTicket(w) ==
  /\ pc[w] = "called"
  /\ g_temp_counter[w[1]] < MaxTickets
  /\ ticket' = [ticket EXCEPT ![w] = g_temp_counter[w[1]]]
  /\ g_temp_counter' = [g_temp_counter EXCEPT ![w[1]] = @ + 1]
  /\ Goto(w, "open")
  /\ UNCHANGED <<dir, content, path, data, openVars, answer, leftover, refused>>

\* The parent directory cannot be created, or the temporary file not opened.
CannotOpen(w) ==
  /\ pc[w] \in {"called", "open"}
  /\ Return(w, "false")
  /\ UNCHANGED <<dir, content, openVars, g_temp_counter, leftover, refused>>

\* Opened with trunc: a file of that name is emptied, or a new one created.  Which
\* of the free inodes it gets makes no difference; here it is the first.
Open(w) ==
  /\ pc[w] = "open"
  /\ \E i \in Inodes :
       /\ IF dir[Temp(w)] # None THEN i = dir[Temp(w)]
          ELSE Free(i) /\ \A j \in Inodes : Free(j) => i <= j
       /\ dir' = [dir EXCEPT ![Temp(w)] = i]
       /\ content' = [content EXCEPT ![i] = Empty]
       /\ handle' = [handle EXCEPT ![w] = i]
  /\ written' = [written EXCEPT ![w] = 0]
  /\ Goto(w, "write")
  /\ UNCHANGED <<callVars, answer, g_temp_counter, leftover, refused>>

WriteBlock(w) ==
  /\ pc[w] = "write"
  /\ written[w] < BlockCount
  /\ written' = [written EXCEPT ![w] = @ + 1]
  /\ content' = [content EXCEPT ![handle[w]][written[w] + 1] = data[w]]
  /\ UNCHANGED <<dir, pc, callVars, handle, answer, g_temp_counter, leftover, refused>>

Shut(w, step) ==
  /\ Goto(w, step)
  /\ handle' = [handle EXCEPT ![w] = None]
  /\ written' = [written EXCEPT ![w] = 0]
  /\ UNCHANGED <<dir, content, callVars, answer, g_temp_counter, leftover, refused>>

Close(w) ==
  /\ pc[w] = "write"
  /\ written[w] = BlockCount
  /\ Shut(w, "rename")

\* The disk is full, at any point of the write.
WriteFails(w) ==
  /\ pc[w] = "write"
  /\ Shut(w, "discard")

\* rename() replaces the file and takes the temporary name away, at once.
Rename(w) ==
  /\ pc[w] \in {"rename", "again"}
  /\ dir[Temp(w)] # None
  /\ dir' = [dir EXCEPT ![path[w]] = dir[Temp(w)], ![Temp(w)] = None]
  /\ Return(w, "true")
  /\ UNCHANGED <<content, openVars, g_temp_counter, leftover, refused>>

\* It fails when the temporary file is gone, and for the file system's reasons.
RenameFails(w) ==
  /\ pc[w] \in {"rename", "again"}
  /\ Goto(w, IF pc[w] = "rename" THEN "remove" ELSE "discard")
  /\ refused' = IF dir[Temp(w)] = None THEN refused ELSE refused \cup {path[w]}
  /\ UNCHANGED <<dir, content, callVars, openVars, answer, g_temp_counter, leftover>>

\* The file is removed, to make place for the second rename(); or it stays.
RemoveOld(w) ==
  /\ pc[w] = "remove"
  /\ dir' = dir \/ dir' = [dir EXCEPT ![path[w]] = None]
  /\ Goto(w, "again")
  /\ UNCHANGED <<content, callVars, openVars, answer, g_temp_counter, leftover, refused>>

\* Mutants of Discard: the temporary file stays; and the failure is not told.
DiscardNothing(w) ==
  /\ pc[w] = "discard"
  /\ Return(w, "false")
  /\ UNCHANGED <<dir, content, openVars, g_temp_counter, leftover, refused>>

DiscardQuietly(w) ==
  /\ pc[w] = "discard"
  /\ dir' = [dir EXCEPT ![Temp(w)] = None]
  /\ Return(w, "true")
  /\ UNCHANGED <<content, openVars, g_temp_counter, leftover, refused>>

\* The temporary file is removed, and the failure returned.
Discard(w) ==
  /\ pc[w] = "discard"
  /\ dir' = [dir EXCEPT ![Temp(w)] = None]
  /\ Return(w, "false")
  /\ UNCHANGED <<content, openVars, g_temp_counter, leftover, refused>>

-----------------------------------------------------------------------------
(* The process.                                                            *)

\* The process ends, by itself or killed at any moment, and another one may be
\* started in its place.
Exit(p) ==
  /\ pc' = [w \in Writers |-> IF w[1] = p THEN "idle" ELSE pc[w]]
  /\ path' = [w \in Writers |-> IF w[1] = p THEN None ELSE path[w]]
  /\ data' = [w \in Writers |-> IF w[1] = p THEN None ELSE data[w]]
  /\ ticket' = [w \in Writers |-> IF w[1] = p THEN None ELSE ticket[w]]
  /\ handle' = [w \in Writers |-> IF w[1] = p THEN None ELSE handle[w]]
  /\ written' = [w \in Writers |-> IF w[1] = p THEN 0 ELSE written[w]]
  /\ answer' = [w \in Writers |-> IF w[1] = p THEN None ELSE answer[w]]
  /\ g_temp_counter' = [g_temp_counter EXCEPT ![p] = 0]
  /\ leftover' = leftover \cup {Temp(w) : w \in {v \in ThreadsOf(p) : ticket[v] # None}}
  /\ UNCHANGED <<dir, content, refused>>

-----------------------------------------------------------------------------

Write(w) ==
  \/ \E p \in Paths, d \in Data : Call(w, p, d)
  \/ TakeTicket(w) \/ CannotOpen(w) \/ Open(w) \/ WriteBlock(w) \/ Close(w) \/ WriteFails(w)
  \/ Rename(w) \/ RenameFails(w) \/ RemoveOld(w) \/ Discard(w)

Next ==
  \/ \E w \in Writers : Write(w)
  \/ \E p \in Processes : Exit(p)

Spec == Init /\ [][Next]_vars

-----------------------------------------------------------------------------
(* Properties, of one process that may be killed and started again.        *)

\* "A crash or a cancelled run never leaves a half-written asset behind"
\* (fsutil.hpp): whatever was killed when, a file has the whole of one content.
NoHalfWrittenFile ==
  \A p \in Paths : dir[p] # None => \E d \in Data : content[dir[p]] = Whole(d)

\* What is in place is replaced as a whole and never changed, so that who has
\* opened a file reads one content from beginning to end.
PlacedIsFinal ==
  [][\A p \in Paths : dir[p] # None => content'[dir[p]] = content[dir[p]]]_vars

\* A file never disappears, not even for a moment or by a kill, unless rename()
\* has refused to replace it.
FilesStay ==
  [][\A p \in Paths : dir[p] # None /\ p \notin refused => dir'[p] # None]_vars

\* No temporary file is left behind, other than by a kill: each belongs to a
\* write in progress.
NoTempLeft ==
  \A n \in Temps : dir[n] # None =>
    n \in leftover \/ \E w \in Writers : pc[w] \notin {"idle", "called", "open"} /\ Temp(w) = n

FileAt(p) ==
  IF dir[p] = None THEN None
  ELSE IF \E d \in Data : content[dir[p]] = Whole(d)
       THEN CHOOSE d \in Data : content[dir[p]] = Whole(d)
       ELSE "torn"

Pending(w) == IF pc[w] = "idle" THEN None ELSE [path |-> path[w], data |-> data[w]]

Atomic == INSTANCE AtomicFiles WITH
  files   <- [p \in Paths |-> FileAt(p)],
  pending <- [w \in Writers |-> Pending(w)]

\* write_file_atomic() replaces a file at one moment, or fails and at worst has
\* removed it.
ImplementsAtomicFiles == Atomic!Spec
=============================================================================
