--------------------------- MODULE FileStore_proofs -------------------------
(***************************************************************************)
(* Proofs about FileStore, for any number of threads, files, contents,     *)
(* blocks and tickets, and any number of kills.                            *)
(*                                                                         *)
(* Types are kept by any number of processes.  The rest holds of one       *)
(* process only (OneProcess is assumed where it is needed, and the run of  *)
(* two processes shows that it is): the tickets, which all come from one   *)
(* counter, keep the temporary names of the threads apart; an inode then   *)
(* has one name and one writer, and what is about to be renamed is whole.  *)
(***************************************************************************)
EXTENDS FileStore, TLAPS

OneProcess == \A p, q \in Processes : p = q

Named == {"open", "write", "rename", "remove", "again", "discard"}

\* A writer in a call has its arguments, and a ticket from its process's counter.
Called ==
  \A w \in Writers :
    /\ pc[w] # "idle" => path[w] \in Paths /\ data[w] \in Data
    /\ IF pc[w] \in Named THEN ticket[w] \in Tickets /\ ticket[w] < g_temp_counter[w[1]]
       ELSE ticket[w] = None

TicketsDiffer ==
  \A v, w \in Writers : pc[v] \in Named /\ pc[w] \in Named /\ v # w => ticket[v] # ticket[w]

\* No inode has two names.
OneName ==
  \A m, n \in Names : dir[m] # None /\ m # n => dir[m] # dir[n]

\* What a writer has opened is what its temporary name stands for, and it holds
\* what has been written so far.
Opened ==
  \A w \in Writers :
    IF pc[w] = "write"
    THEN /\ handle[w] \in Inodes
         /\ dir[Temp(w)] = handle[w]
         /\ \A b \in Blocks : b <= written[w] => content[handle[w]][b] = data[w]
    ELSE handle[w] = None

\* What is about to be renamed is there, and whole.
Ready ==
  \A w \in Writers :
    pc[w] \in {"rename", "remove", "again"} =>
      dir[Temp(w)] # None /\ content[dir[Temp(w)]] = Whole(data[w])

\* A file is removed only after rename() has refused to replace it.
Refused ==
  \A w \in Writers : pc[w] = "remove" => path[w] \in refused

IInv ==
  /\ TypeOK
  /\ Called
  /\ TicketsDiffer
  /\ OneName
  /\ Opened
  /\ Ready
  /\ Refused
  /\ NoHalfWrittenFile
  /\ NoTempLeft

-----------------------------------------------------------------------------
(* Contents and names.                                                     *)

\* A whole content tells of what it is the whole.
LEMMA WholeOfOne ==
  ASSUME NEW d \in Data, NEW e \in Data, Whole(d) = Whole(e)
  PROVE  d = e
<1>1. 1 \in Blocks
  BY FileStoreAssumption DEF Blocks
<1>2. Whole(d)[1] = d /\ Whole(e)[1] = e
  BY <1>1 DEF Whole
<1>3. QED
  BY <1>2

\* A temporary name is no name of a file.
LEMMA NamesApart == Paths \subseteq Names /\ Temps \subseteq Names /\ Paths \cap Temps = {}
<1>1. Temps \subseteq Paths \X Nat
  BY FileStoreAssumption DEF Temps, Tickets
<1>2. QED
  BY <1>1, FileStoreAssumption DEF Names

\* Who has a ticket has a temporary name.
LEMMA TempName ==
  ASSUME Called, NEW w \in Writers, pc[w] \in Named
  PROVE  /\ path[w] \in Paths
         /\ data[w] \in Data
         /\ Temp(w) \in Temps
         /\ Temp(w) \in Names
         /\ Temp(w) \notin Paths
<1>1. path[w] \in Paths /\ data[w] \in Data /\ ticket[w] \in Tickets
  BY DEF Called, Named
<1>2. Temp(w) \in Temps
  BY <1>1 DEF Temp, Temps
<1>3. QED
  BY <1>1, <1>2, NamesApart

-----------------------------------------------------------------------------
(* Type correctness, of any number of processes.                           *)

\* What a step needs of the types to keep them: the arguments, the ticket and
\* the open file of a writer.
Typed ==
  /\ TypeOK
  /\ Called
  /\ \A w \in Writers : pc[w] = "write" => handle[w] \in Inodes

LEMMA InitTyped == Init => Typed
BY FileStoreAssumption DEF Init, Typed, TypeOK, Called, Named, Steps, Empty, Blocks

\* A writer is of a process.
LEMMA ProcessOf == \A w \in Writers : w[1] \in Processes
BY DEF Writers

LEMMA StepTyped == Typed /\ [Next]_vars => Typed'
<1> SUFFICES ASSUME Typed, [Next]_vars PROVE Typed'
  OBVIOUS
<1> USE DEF Typed
<1>c. MaxTickets \in Nat /\ BlockCount \in Nat \ {0} /\ None \notin Nat
  BY FileStoreAssumption
<1>1. ASSUME NEW w \in Writers, NEW p \in Paths, NEW d \in Data, Call(w, p, d) PROVE Typed'
  BY <1>1 DEF Call, Goto, TypeOK, Called, Named, Steps, openVars
<1>2. ASSUME NEW w \in Writers, TakeTicket(w) PROVE Typed'
  <2>1. w[1] \in Processes
    BY ProcessOf
  <2>2. g_temp_counter[w[1]] \in Tickets /\ g_temp_counter[w[1]] + 1 \in 0 .. MaxTickets
    BY <1>2, <1>c, <2>1 DEF TakeTicket, TypeOK, Tickets
  <2>3. TypeOK'
    BY <1>2, <2>1, <2>2 DEF TakeTicket, Goto, TypeOK, Steps, openVars
  <2>4. Called'
    BY <1>2, <2>1, <2>2, ProcessOf, <1>c DEF TakeTicket, Goto, TypeOK, Called, Named, Tickets
  <2>5. QED
    BY <1>2, <2>3, <2>4 DEF TakeTicket, Goto, TypeOK, openVars
<1>3. ASSUME NEW w \in Writers, CannotOpen(w) PROVE Typed'
  BY <1>3 DEF CannotOpen, Return, Goto, TypeOK, Called, Named, Steps, openVars
<1>4. ASSUME NEW w \in Writers, Open(w) PROVE Typed'
  <2>1. PICK i \in Inodes : /\ dir' = [dir EXCEPT ![Temp(w)] = i]
                            /\ content' = [content EXCEPT ![i] = Empty]
                            /\ handle' = [handle EXCEPT ![w] = i]
    BY <1>4 DEF Open
  <2>2. Empty \in [Blocks -> Data \cup {None}]
    BY DEF Empty
  <2>3. TypeOK'
    <3>1. dir' \in [Names -> Inodes \cup {None}] /\ handle' \in [Writers -> Inodes \cup {None}]
      BY <2>1 DEF TypeOK
    <3>2. content' \in [Inodes -> [Blocks -> Data \cup {None}]]
      BY <2>1, <2>2 DEF TypeOK
    <3>3. pc' \in [Writers -> Steps] /\ written' \in [Writers -> 0 .. BlockCount]
      BY <1>4, <1>c DEF Open, Goto, TypeOK, Steps
    <3>4. QED
      BY <1>4, <3>1, <3>2, <3>3 DEF Open, TypeOK, callVars
  <2>4. Called' /\ \A v \in Writers : pc'[v] = "write" => handle'[v] \in Inodes
    BY <1>4, <2>1 DEF Open, Goto, TypeOK, Called, Named, callVars
  <2>5. QED
    BY <2>3, <2>4
<1>5. ASSUME NEW w \in Writers, WriteBlock(w) PROVE Typed'
  <2>1. handle[w] \in Inodes /\ data[w] \in Data
    BY <1>5 DEF WriteBlock, Called
  <2>2. written[w] + 1 \in Blocks /\ written[w] + 1 \in 0 .. BlockCount
    BY <1>5, <1>c DEF WriteBlock, TypeOK, Blocks
  <2>3. content' \in [Inodes -> [Blocks -> Data \cup {None}]]
    BY <1>5, <2>1, <2>2 DEF WriteBlock, TypeOK
  <2>4. QED
    BY <1>5, <2>2, <2>3 DEF WriteBlock, TypeOK, Called, Named, callVars
<1>6. ASSUME NEW w \in Writers, Close(w) \/ WriteFails(w) PROVE Typed'
  <2>1. PICK step \in {"rename", "discard"} : pc[w] = "write" /\ Shut(w, step)
    BY <1>6 DEF Close, WriteFails
  <2>2. TypeOK'
    BY <2>1, <1>c DEF Shut, Goto, TypeOK, Steps, callVars
  <2>3. QED
    BY <2>1, <2>2 DEF Shut, Goto, TypeOK, Called, Named, callVars
<1>7. ASSUME NEW w \in Writers, Rename(w) PROVE Typed'
  <2>1. dir' \in [Names -> Inodes \cup {None}]
    <3>1. Temp(w) \in Names
      BY <1>7, TempName DEF Rename, Named
    <3>2. QED
      BY <1>7, <3>1 DEF Rename, TypeOK
  <2>2. QED
    BY <1>7, <2>1 DEF Rename, Return, Goto, TypeOK, Called, Named, Steps, openVars
<1>8. ASSUME NEW w \in Writers, RenameFails(w) PROVE Typed'
  <2>1. path[w] \in Paths
    BY <1>8 DEF RenameFails, Called
  <2>2. QED
    BY <1>8, <2>1 DEF RenameFails, Goto, TypeOK, Called, Named, Steps, callVars, openVars
<1>9. ASSUME NEW w \in Writers, RemoveOld(w) PROVE Typed'
  <2>1. dir' \in [Names -> Inodes \cup {None}]
    BY <1>9 DEF RemoveOld, TypeOK
  <2>2. QED
    BY <1>9, <2>1 DEF RemoveOld, Goto, TypeOK, Called, Named, Steps, callVars, openVars
<1>10. ASSUME NEW w \in Writers, Discard(w) PROVE Typed'
  BY <1>10 DEF Discard, Return, Goto, TypeOK, Called, Named, Steps, openVars
<1>11. ASSUME NEW p \in Processes, Exit(p) PROVE Typed'
  <2>1. \A v \in ThreadsOf(p) : v \in Writers /\ (ticket[v] # None => Temp(v) \in Temps)
    BY DEF ThreadsOf, Writers, TypeOK, Called, Temp, Temps, Named
  <2>2. leftover' \subseteq Temps
    BY <1>11, <2>1 DEF Exit, TypeOK
  <2>3. TypeOK'
    BY <1>11, <1>c, <2>2 DEF Exit, TypeOK, Steps
  <2>4. QED
    BY <1>11, <2>3, ProcessOf DEF Exit, Called, Named, TypeOK
<1>12. CASE UNCHANGED vars
  BY <1>12 DEF vars, callVars, openVars, TypeOK, Called, Temp
<1>13. QED
  BY <1>1, <1>2, <1>3, <1>4, <1>5, <1>6, <1>7, <1>8, <1>9, <1>10, <1>11, <1>12 DEF Next, Write

\* The variables keep their types, whatever the processes do: a writer never
\* writes through a handle it has not opened, nor past the end of a content.
THEOREM TypeCorrect == Spec => []TypeOK
<1>1. Typed => TypeOK
  BY DEF Typed
<1>2. QED
  BY InitTyped, StepTyped, <1>1, PTL DEF Spec

-----------------------------------------------------------------------------
(* Who keeps what during a step.                                           *)

Stays(v) ==
  /\ pc'[v] = pc[v] /\ path'[v] = path[v] /\ data'[v] = data[v] /\ ticket'[v] = ticket[v]
  /\ handle'[v] = handle[v] /\ written'[v] = written[v]
  /\ Temp(v)' = Temp(v)

\* A step of one writer leaves the others where they are.
LEMMA OthersStay ==
  ASSUME Typed, NEW w \in Writers, Write(w), NEW v \in Writers, v # w
  PROVE  Stays(v)
<1> USE DEF Typed, TypeOK, Goto, callVars, openVars, Temp, Stays
<1>1. ASSUME NEW p \in Paths, NEW d \in Data, Call(w, p, d) PROVE Stays(v)
  BY <1>1 DEF Call
<1>2. CASE TakeTicket(w) \/ CannotOpen(w)
  BY <1>2 DEF TakeTicket, CannotOpen, Return
<1>3. CASE Open(w)
  BY <1>3 DEF Open
<1>4. CASE WriteBlock(w) \/ Close(w) \/ WriteFails(w)
  BY <1>4 DEF WriteBlock, Close, WriteFails, Shut
<1>5. CASE Rename(w) \/ RenameFails(w)
  BY <1>5 DEF Rename, RenameFails, Return
<1>6. CASE RemoveOld(w) \/ Discard(w)
  BY <1>6 DEF RemoveOld, Discard, Return
<1>7. QED
  BY <1>1, <1>2, <1>3, <1>4, <1>5, <1>6 DEF Write

\* A call keeps its arguments, and its ticket once it has one, until it ends.
LEMMA CallKept ==
  ASSUME Typed, [Next]_vars, NEW v \in Writers, pc'[v] \in Named
  PROVE  /\ pc[v] \in Named \cup {"called"}
         /\ path'[v] = path[v] /\ data'[v] = data[v]
         /\ pc[v] \in Named => ticket'[v] = ticket[v] /\ Temp(v)' = Temp(v)
         /\ pc[v] = "called" => TakeTicket(v)
<1> DEFINE Goal == /\ pc[v] \in Named \cup {"called"}
                   /\ path'[v] = path[v] /\ data'[v] = data[v]
                   /\ pc[v] \in Named => ticket'[v] = ticket[v] /\ Temp(v)' = Temp(v)
                   /\ pc[v] = "called" => TakeTicket(v)
<1>1. CASE Write(v)
  <2> USE DEF Typed, TypeOK, Goto, callVars, openVars, Named, Temp
  <2>1. ASSUME NEW p \in Paths, NEW d \in Data, Call(v, p, d) PROVE FALSE
    BY <2>1 DEF Call
  <2>2. ASSUME CannotOpen(v) \/ Rename(v) \/ Discard(v) PROVE FALSE
    BY <2>2 DEF CannotOpen, Rename, Discard, Return
  <2>3. CASE TakeTicket(v)
    BY <2>3 DEF TakeTicket
  <2>4. CASE Open(v)
    BY <2>4 DEF Open
  <2>5. CASE WriteBlock(v) \/ Close(v) \/ WriteFails(v)
    BY <2>5 DEF WriteBlock, Close, WriteFails, Shut
  <2>6. CASE RenameFails(v) \/ RemoveOld(v)
    BY <2>6 DEF RenameFails, RemoveOld
  <2>7. QED
    BY <1>1, <2>1, <2>2, <2>3, <2>4, <2>5, <2>6 DEF Write
<1>2. ASSUME NEW w \in Writers, Write(w), w # v PROVE Goal
  <2>1. Stays(v)
    BY <1>2, OthersStay
  <2>2. pc[v] \in Named /\ Temp(v)' = Temp(v)
    BY <2>1 DEF Stays
  <2>3. pc[v] # "called"
    BY <2>2 DEF Named
  <2>4. QED
    BY <2>1, <2>2, <2>3 DEF Stays
<1>3. ASSUME NEW p \in Processes, Exit(p) PROVE Goal
  BY <1>3 DEF Exit, Temp, Named
<1>4. CASE UNCHANGED vars
  BY <1>4 DEF vars, callVars, Temp, Named
<1>5. QED
  BY <1>1, <1>2, <1>3, <1>4 DEF Next

-----------------------------------------------------------------------------
(* The tickets of one process differ.                                      *)

LEMMA InitTicketsDiffer == Init => TicketsDiffer
BY DEF Init, TicketsDiffer, Named

LEMMA StepTicketsDiffer ==
  ASSUME OneProcess, Typed, TicketsDiffer, [Next]_vars
  PROVE  TicketsDiffer'
<1> SUFFICES ASSUME NEW v \in Writers, NEW w \in Writers,
                    pc'[v] \in Named, pc'[w] \in Named, v # w
             PROVE  ticket'[v] # ticket'[w]
  BY DEF TicketsDiffer
\* A new ticket is the value of the counter; the older ones are below it.
<1>1. ASSUME NEW u \in Writers, NEW x \in Writers, u # x, TakeTicket(u), pc'[x] \in Named
      PROVE  ticket'[u] # ticket'[x]
  <2>1. Stays(x)
    BY <1>1, OthersStay DEF Write
  <2>2. ticket[x] \in Tickets /\ ticket[x] < g_temp_counter[x[1]]
    BY <1>1, <2>1 DEF Stays, Typed, Called
  <2>3. x[1] = u[1] /\ u[1] \in Processes
    BY ProcessOf DEF OneProcess
  <2>4. ticket'[u] = g_temp_counter[u[1]] /\ g_temp_counter[u[1]] \in Nat
    BY <1>1, <2>3, FileStoreAssumption DEF TakeTicket, Typed, TypeOK
  <2>5. QED
    BY <2>1, <2>2, <2>3, <2>4, FileStoreAssumption DEF Stays, Tickets
<1>2. CASE pc[v] \in Named /\ pc[w] \in Named
  BY <1>2, CallKept DEF TicketsDiffer
<1>3. CASE pc[v] = "called" \/ pc[w] = "called"
  BY <1>1, <1>3, CallKept
<1>4. QED
  BY <1>2, <1>3, CallKept

-----------------------------------------------------------------------------
(* The disk.                                                               *)

Disk == <<dir, content>>

\* The steps that change the disk.
LEMMA DiskSteps ==
  ASSUME [Next]_vars, ~ UNCHANGED Disk
  PROVE  \E w \in Writers :
           /\ Write(w)
           /\ Open(w) \/ WriteBlock(w) \/ Rename(w) \/ RemoveOld(w) \/ Discard(w)
BY DEF Next, Write, vars, Disk, Call, TakeTicket, CannotOpen, Close, WriteFails, Shut, RenameFails, Exit

\* Who has come past opening its temporary file.
Writing == {"write", "rename", "remove", "again", "discard"}

\* No two writers have one temporary name.
LEMMA TempsDiffer ==
  ASSUME TicketsDiffer, NEW v \in Writers, NEW w \in Writers, v # w, pc[v] \in Named, pc[w] \in Named
  PROVE  Temp(v) # Temp(w)
BY DEF TicketsDiffer, Temp

LEMMA InitOneName == Init => OneName
BY DEF Init, OneName

LEMMA StepOneName ==
  ASSUME Typed, OneName, [Next]_vars
  PROVE  OneName'
<1>1. CASE UNCHANGED Disk
  BY <1>1 DEF Disk, OneName
<1>2. ASSUME NEW w \in Writers, Open(w) PROVE OneName'
  <2>1. PICK i \in Inodes : /\ dir[Temp(w)] # None => i = dir[Temp(w)]
                            /\ dir[Temp(w)] = None => Free(i)
                            /\ dir' = [dir EXCEPT ![Temp(w)] = i]
    BY <1>2 DEF Open
  <2>2. QED
    BY <2>1 DEF OneName, Free, Typed, TypeOK
<1>3. ASSUME NEW w \in Writers, WriteBlock(w) PROVE OneName'
  BY <1>3 DEF WriteBlock, OneName
<1>4. ASSUME NEW w \in Writers, Rename(w) PROVE OneName'
  <2>1. path[w] \in Names /\ Temp(w) \in Names /\ path[w] # Temp(w)
    BY <1>4, TempName, NamesApart DEF Rename, Named, Typed
  <2>2. QED
    BY <1>4, <2>1 DEF Rename, OneName, Typed, TypeOK
<1>5. ASSUME NEW w \in Writers, RemoveOld(w) PROVE OneName'
  BY <1>5 DEF RemoveOld, OneName, Typed, TypeOK
<1>6. ASSUME NEW w \in Writers, Discard(w) PROVE OneName'
  BY <1>6 DEF Discard, OneName, Typed, TypeOK
<1>7. QED
  BY <1>1, <1>2, <1>3, <1>4, <1>5, <1>6, DiskSteps

\* A step of a writer changes the content of no name but its temporary one.
LEMMA OnlyItsContent ==
  ASSUME Typed, OneName, Opened, NEW w \in Writers, Write(w),
         NEW n \in Names, dir[n] # None, n # Temp(w) \/ pc[w] \notin {"open", "write"}
  PROVE  content'[dir[n]] = content[dir[n]]
<1>1. CASE Open(w)
  <2>1. PICK i \in Inodes : /\ dir[Temp(w)] # None => i = dir[Temp(w)]
                            /\ dir[Temp(w)] = None => Free(i)
                            /\ content' = [content EXCEPT ![i] = Empty]
    BY <1>1 DEF Open
  <2>2. n # Temp(w) /\ Temp(w) \in Names
    BY <1>1, TempName DEF Open, Named, Typed
  <2>3. i # dir[n]
    BY <2>1, <2>2 DEF OneName, Free
  <2>4. QED
    BY <2>1, <2>3 DEF Typed, TypeOK
<1>2. CASE WriteBlock(w)
  <2>1. n # Temp(w) /\ Temp(w) \in Names
    BY <1>2, TempName DEF WriteBlock, Named, Typed
  <2>2. handle[w] = dir[Temp(w)] /\ handle[w] \in Inodes
    BY <1>2 DEF WriteBlock, Opened
  <2>3. handle[w] # dir[n]
    BY <2>1, <2>2 DEF OneName
  <2>4. dir[n] \in Inodes
    BY DEF Typed, TypeOK
  <2>5. QED
    BY <1>2, <2>3, <2>4 DEF WriteBlock, Typed, TypeOK
<1>3. ASSUME ~ Open(w), ~ WriteBlock(w) PROVE content' = content
  BY <1>3 DEF Write, Call, TakeTicket, CannotOpen, Close, WriteFails, Shut, Rename, RenameFails,
              RemoveOld, Discard
<1>4. QED
  BY <1>1, <1>2, <1>3

\* Nobody disturbs the temporary file of another writer.
LEMMA OthersFilesStay ==
  ASSUME Typed, TicketsDiffer, OneName, Opened, NEW w \in Writers, Write(w),
         NEW v \in Writers, v # w, pc[v] \in Named
  PROVE  /\ dir'[Temp(v)] = dir[Temp(v)]
         /\ dir[Temp(v)] # None => content'[dir[Temp(v)]] = content[dir[Temp(v)]]
<1>1. Temp(v) \in Names /\ Temp(v) \notin Paths
  BY TempName DEF Typed
<1>2. pc[w] \in Named => Temp(v) # Temp(w) /\ Temp(v) # path[w]
  BY <1>1, TempName, TempsDiffer DEF Typed
<1>3. dir'[Temp(v)] = dir[Temp(v)]
  <2>1. CASE Open(w)
    BY <1>1, <1>2, <2>1 DEF Open, Named, Typed, TypeOK
  <2>2. CASE Rename(w)
    BY <1>1, <1>2, <2>2 DEF Rename, Named, Typed, TypeOK
  <2>3. CASE RemoveOld(w) \/ Discard(w)
    BY <1>1, <1>2, <2>3 DEF RemoveOld, Discard, Named, Typed, TypeOK
  <2>4. ASSUME ~ Open(w), ~ Rename(w), ~ RemoveOld(w), ~ Discard(w) PROVE dir' = dir
    BY <2>4 DEF Write, Call, TakeTicket, CannotOpen, Close, WriteFails, Shut, WriteBlock, RenameFails
  <2>5. QED
    BY <2>1, <2>2, <2>3, <2>4
<1>4. dir[Temp(v)] # None => content'[dir[Temp(v)]] = content[dir[Temp(v)]]
  BY <1>1, <1>2, OnlyItsContent DEF Named
<1>5. QED
  BY <1>3, <1>4

-----------------------------------------------------------------------------
(* What is opened, what is ready, what has been refused.                   *)

LEMMA InitOpened == Init => Opened /\ Ready /\ Refused
BY FileStoreAssumption DEF Init, Opened, Ready, Refused

LEMMA StepOpened ==
  ASSUME Typed, TicketsDiffer, OneName, Opened, [Next]_vars
  PROVE  Opened'
<1> DEFINE OpenedBy(v) ==
      IF pc[v] = "write"
      THEN /\ handle[v] \in Inodes
           /\ dir[Temp(v)] = handle[v]
           /\ \A b \in Blocks : b <= written[v] => content[handle[v]][b] = data[v]
      ELSE handle[v] = None
<1>0. SUFFICES ASSUME NEW v \in Writers PROVE OpenedBy(v)'
  BY DEF Opened
<1>o. OpenedBy(v)
  BY DEF Opened
<1>1. CASE Open(v)
  <2>1. PICK i \in Inodes : /\ dir' = [dir EXCEPT ![Temp(v)] = i]
                            /\ handle' = [handle EXCEPT ![v] = i]
    BY <1>1 DEF Open
  <2>2. Temp(v) \in Names /\ Temp(v)' = Temp(v)
    BY <1>1, TempName DEF Open, Named, Typed, callVars, Temp
  <2>3. dir'[Temp(v)'] = i /\ handle'[v] = i /\ pc'[v] = "write" /\ written'[v] = 0
    BY <1>1, <2>1, <2>2 DEF Open, Goto, Typed, TypeOK
  <2>4. QED
    BY <2>3, FileStoreAssumption DEF Blocks
<1>2. CASE WriteBlock(v)
  <2>1. /\ handle'[v] = handle[v] /\ handle[v] \in Inodes
        /\ Temp(v)' = Temp(v) /\ dir' = dir /\ pc'[v] = "write" /\ data' = data
        /\ dir[Temp(v)] = handle[v]
    BY <1>o, <1>2 DEF WriteBlock, callVars, Temp
  <2>2. written[v] \in Nat /\ written'[v] = written[v] + 1 /\ written[v] + 1 \in Blocks
    BY <1>2, FileStoreAssumption DEF WriteBlock, Typed, TypeOK, Blocks
  <2>3. content'[handle[v]] = [content[handle[v]] EXCEPT ![written[v] + 1] = data[v]]
    BY <1>2, <2>1 DEF WriteBlock, Typed, TypeOK
  <2>4. content[handle[v]] \in [Blocks -> Data \cup {None}]
    BY <2>1 DEF Typed, TypeOK
  <2>5. ASSUME NEW b \in Blocks, b <= written[v] + 1 PROVE content'[handle[v]][b] = data[v]
    <3>1. CASE b = written[v] + 1
      BY <2>2, <2>3, <2>4, <3>1
    <3>2. CASE b # written[v] + 1
      <4>1. b <= written[v]
        BY <2>2, <2>5, <3>2, FileStoreAssumption DEF Blocks
      <4>2. content[handle[v]][b] = data[v]
        BY <1>2, <1>o, <4>1 DEF WriteBlock
      <4>3. QED
        BY <2>3, <2>4, <3>2, <4>2
    <3>3. QED
      BY <3>1, <3>2
  <2>6. QED
    BY <2>1, <2>2, <2>5
<1>3. CASE Write(v) /\ ~ Open(v) /\ ~ WriteBlock(v)
  <2>1. pc'[v] # "write" /\ handle'[v] = None
    <3> USE DEF Typed, TypeOK, Goto, openVars
    <3>1. ASSUME NEW p \in Paths, NEW d \in Data, Call(v, p, d) PROVE pc'[v] # "write" /\ handle'[v] = None
      BY <1>o, <3>1 DEF Call
    <3>2. CASE TakeTicket(v) \/ CannotOpen(v)
      BY <1>o, <3>2 DEF TakeTicket, CannotOpen, Return
    <3>3. CASE Close(v) \/ WriteFails(v)
      BY <1>o, <3>3 DEF Close, WriteFails, Shut
    <3>4. CASE Rename(v) \/ RenameFails(v)
      BY <1>o, <3>4 DEF Rename, RenameFails, Return
    <3>5. CASE RemoveOld(v) \/ Discard(v)
      BY <1>o, <3>5 DEF RemoveOld, Discard, Return
    <3>6. QED
      BY <1>3, <3>1, <3>2, <3>3, <3>4, <3>5 DEF Write
  <2>2. QED
    BY <2>1
<1>4. ASSUME NEW w \in Writers, Write(w), v # w PROVE OpenedBy(v)'
  <2>1. Stays(v)
    BY <1>4, OthersStay
  <2>2. CASE pc[v] = "write"
    <3>1. /\ dir'[Temp(v)] = dir[Temp(v)]
          /\ dir[Temp(v)] # None => content'[dir[Temp(v)]] = content[dir[Temp(v)]]
      BY <1>4, <2>2, OthersFilesStay DEF Named
    <3>2. QED
      BY <1>o, <2>1, <2>2, <3>1, FileStoreAssumption DEF Stays
  <2>3. CASE pc[v] # "write"
    BY <1>o, <2>1, <2>3 DEF Stays
  <2>4. QED
    BY <2>2, <2>3
<1>5. ASSUME NEW p \in Processes, Exit(p) PROVE OpenedBy(v)'
  BY <1>o, <1>5 DEF Exit, Temp
<1>6. CASE UNCHANGED vars
  BY <1>o, <1>6 DEF vars, callVars, openVars, Temp
<1>7. QED
  BY <1>1, <1>2, <1>3, <1>4, <1>5, <1>6 DEF Next, Write

LEMMA StepReady ==
  ASSUME Typed, TicketsDiffer, OneName, Opened, Ready, [Next]_vars
  PROVE  Ready'
<1> SUFFICES ASSUME NEW v \in Writers, pc'[v] \in {"rename", "remove", "again"}
             PROVE  dir'[Temp(v)'] # None /\ content'[dir'[Temp(v)']] = Whole(data'[v])
  BY DEF Ready, Whole
<1>1. Temp(v)' = Temp(v) /\ data'[v] = data[v] /\ pc[v] \in Named
  BY CallKept DEF Named, TakeTicket, Goto, Typed, TypeOK
<1>2. CASE Close(v)
  <2>1. /\ handle[v] \in Inodes /\ dir[Temp(v)] = handle[v]
        /\ \A b \in Blocks : content[handle[v]][b] = data[v]
    BY <1>2, FileStoreAssumption DEF Close, Opened, Blocks
  <2>2. content[handle[v]] = Whole(data[v])
    BY <2>1 DEF Typed, TypeOK, Whole
  <2>3. UNCHANGED Disk
    BY <1>2 DEF Close, Shut, Disk
  <2>4. QED
    BY <1>1, <2>1, <2>2, <2>3, FileStoreAssumption DEF Disk
<1>3. CASE RenameFails(v)
  BY <1>1, <1>3 DEF RenameFails, Ready
<1>4. CASE RemoveOld(v)
  <2>1. Temp(v) # path[v] /\ Temp(v) \in Names
    BY <1>1, TempName DEF Typed
  <2>2. dir'[Temp(v)] = dir[Temp(v)] /\ content' = content
    BY <1>4, <2>1 DEF RemoveOld, Typed, TypeOK
  <2>3. QED
    BY <1>1, <1>4, <2>2 DEF RemoveOld, Ready
<1>5. ASSUME Write(v), ~ Close(v), ~ RenameFails(v), ~ RemoveOld(v) PROVE FALSE
  <2> USE DEF Typed, TypeOK, Goto
  <2>1. ASSUME NEW p \in Paths, NEW d \in Data, Call(v, p, d) PROVE FALSE
    BY <2>1 DEF Call
  <2>2. ASSUME TakeTicket(v) \/ CannotOpen(v) PROVE FALSE
    BY <2>2 DEF TakeTicket, CannotOpen, Return
  <2>3. ASSUME Open(v) \/ WriteBlock(v) \/ WriteFails(v) PROVE FALSE
    BY <2>3 DEF Open, WriteBlock, WriteFails, Shut
  <2>4. ASSUME Rename(v) \/ Discard(v) PROVE FALSE
    BY <2>4 DEF Rename, Discard, Return
  <2>5. QED
    BY <1>5, <2>1, <2>2, <2>3, <2>4 DEF Write
<1>6. ASSUME NEW w \in Writers, Write(w), v # w PROVE dir'[Temp(v)] # None /\ content'[dir'[Temp(v)]] = Whole(data[v])
  <2>1. pc[v] \in {"rename", "remove", "again"}
    BY <1>6, OthersStay DEF Stays
  <2>2. QED
    BY <1>1, <1>6, <2>1, OthersFilesStay DEF Ready
<1>7. ASSUME NEW p \in Processes, Exit(p) PROVE dir'[Temp(v)] # None /\ content'[dir'[Temp(v)]] = Whole(data[v])
  BY <1>7 DEF Exit, Ready
<1>8. CASE UNCHANGED vars
  BY <1>1, <1>8 DEF vars, Ready
<1>9. QED
  BY <1>1, <1>2, <1>3, <1>4, <1>5, <1>6, <1>7, <1>8 DEF Next

LEMMA StepRefused ==
  ASSUME Typed, Ready, Refused, [Next]_vars
  PROVE  Refused'
<1> SUFFICES ASSUME NEW v \in Writers, pc'[v] = "remove" PROVE path'[v] \in refused'
  BY DEF Refused
<1>1. pc[v] \in Named /\ path'[v] = path[v]
  BY CallKept DEF Named, TakeTicket, Goto, Typed, TypeOK
<1>2. refused \subseteq refused'
  BY DEF Next, Write, vars, Call, TakeTicket, CannotOpen, Open, WriteBlock, Close, WriteFails, Shut, Rename,
         RenameFails, RemoveOld, Discard, Exit
<1>3. pc[v] = "remove" \/ (RenameFails(v) /\ pc[v] = "rename")
  <2>1. CASE Write(v)
    BY <2>1 DEF Write, Typed, TypeOK, Goto, Call, TakeTicket, CannotOpen, Open, WriteBlock, Close, WriteFails, Shut,
         Rename, RenameFails, RemoveOld, Discard, Return
  <2>2. ASSUME NEW w \in Writers, Write(w), v # w PROVE pc[v] = "remove"
    BY <2>2, OthersStay DEF Stays
  <2>3. QED
    BY <2>1, <2>2 DEF Next, vars, Exit
<1>4. CASE pc[v] = "remove"
  BY <1>1, <1>2, <1>4 DEF Refused
<1>5. CASE RenameFails(v) /\ pc[v] = "rename"
  BY <1>1, <1>5 DEF RenameFails, Ready
<1>6. QED
  BY <1>3, <1>4, <1>5

-----------------------------------------------------------------------------
(* What the files hold.                                                    *)

LEMMA InitFiles == Init => NoHalfWrittenFile /\ NoTempLeft
BY NamesApart DEF Init, NoHalfWrittenFile, NoTempLeft

\* The name of a file is nobody's temporary name.
LEMMA StepPlaced ==
  ASSUME Typed, OneName, Opened, [Next]_vars, NEW p \in Paths, dir[p] # None
  PROVE  content'[dir[p]] = content[dir[p]]
<1>1. ASSUME NEW w \in Writers, Write(w) PROVE content'[dir[p]] = content[dir[p]]
  <2>1. pc[w] \in {"open", "write"} => Temp(w) # p
    BY TempName DEF Named, Typed
  <2>2. QED
    BY <1>1, <2>1, OnlyItsContent, NamesApart
<1>2. QED
  BY <1>1 DEF Next, Exit, vars

\* A file gets a new inode by a rename only.
LEMMA PathsAfter ==
  ASSUME Typed, [Next]_vars, NEW p \in Paths
  PROVE  \/ dir'[p] = dir[p]
         \/ \E w \in Writers : /\ Rename(w) /\ path[w] = p
                               /\ dir'[p] = dir[Temp(w)] /\ dir'[p] # None
         \/ \E w \in Writers : RemoveOld(w) /\ path[w] = p /\ dir'[p] = None
<1> DEFINE Goal == \/ dir'[p] = dir[p]
                   \/ \E w \in Writers : /\ Rename(w) /\ path[w] = p
                                         /\ dir'[p] = dir[Temp(w)] /\ dir'[p] # None
                   \/ \E w \in Writers : RemoveOld(w) /\ path[w] = p /\ dir'[p] = None
<1>0. p \in Names
  BY NamesApart
<1>1. CASE UNCHANGED Disk
  BY <1>1 DEF Disk
<1>2. ASSUME NEW w \in Writers, Open(w) PROVE Goal
  BY <1>2, TempName DEF Open, Named, Typed, TypeOK
<1>3. ASSUME NEW w \in Writers, WriteBlock(w) PROVE Goal
  BY <1>3 DEF WriteBlock
<1>4. ASSUME NEW w \in Writers, Rename(w) PROVE Goal
  <2>1. path[w] \in Names /\ Temp(w) \in Names /\ Temp(w) # path[w] /\ Temp(w) # p
    BY <1>4, TempName, NamesApart DEF Rename, Named, Typed
  <2>2. dir'[p] = IF p = path[w] THEN dir[Temp(w)] ELSE dir[p]
    BY <1>0, <1>4, <2>1 DEF Rename, Typed, TypeOK
  <2>3. QED
    BY <1>4, <2>2 DEF Rename
<1>5. ASSUME NEW w \in Writers, RemoveOld(w) PROVE Goal
  BY <1>0, <1>5 DEF RemoveOld, Typed, TypeOK
<1>6. ASSUME NEW w \in Writers, Discard(w) PROVE Goal
  BY <1>6, TempName DEF Discard, Named, Typed, TypeOK
<1>7. QED
  BY <1>1, <1>2, <1>3, <1>4, <1>5, <1>6, DiskSteps

LEMMA StepNoHalfWrittenFile ==
  ASSUME Typed, OneName, Opened, Ready, NoHalfWrittenFile, [Next]_vars
  PROVE  NoHalfWrittenFile'
<1> SUFFICES ASSUME NEW p \in Paths, dir'[p] # None
             PROVE  \E d \in Data : content'[dir'[p]] = Whole(d)
  BY DEF NoHalfWrittenFile, Whole
<1>1. CASE dir'[p] = dir[p]
  BY <1>1, StepPlaced DEF NoHalfWrittenFile
<1>2. ASSUME NEW w \in Writers, Rename(w), dir'[p] = dir[Temp(w)]
      PROVE  \E d \in Data : content'[dir'[p]] = Whole(d)
  <2>1. data[w] \in Data /\ content[dir[Temp(w)]] = Whole(data[w]) /\ content' = content
    BY <1>2, TempName DEF Rename, Ready, Named, Typed
  <2>2. QED
    BY <1>2, <2>1
<1>3. QED
  BY <1>1, <1>2, PathsAfter

LEMMA StepNoTempLeft ==
  ASSUME Typed, TicketsDiffer, OneName, Opened, NoTempLeft, [Next]_vars
  PROVE  NoTempLeft'
<1> DEFINE Owned(n) == n \in leftover \/ \E v \in Writers : pc[v] \in Writing /\ Temp(v) = n
<1>0. NoTempLeft <=> \A n \in Temps : dir[n] # None => Owned(n)
  BY DEF NoTempLeft, Writing, Typed, TypeOK, Steps
<1>s. Typed'
  BY StepTyped
<1>z. NoTempLeft' <=> \A n \in Temps : dir'[n] # None => Owned(n)'
  BY <1>s DEF NoTempLeft, Writing, Typed, TypeOK, Steps
<1>1. SUFFICES ASSUME NEW n \in Temps, dir'[n] # None PROVE Owned(n)'
  BY <1>z
<1>n. n \in Names /\ n \notin Paths
  BY NamesApart
<1>2. CASE dir[n] = None
  \* Only open() makes a temporary name.
  <2>1. PICK w \in Writers : Open(w) \/ WriteBlock(w) \/ Rename(w) \/ RemoveOld(w) \/ Discard(w)
    BY <1>1, <1>2, DiskSteps DEF Disk
  <2>2. Open(w) /\ n = Temp(w)
    BY <1>1, <1>2, <1>n, <2>1, TempName DEF Open, WriteBlock, Rename, RemoveOld, Discard, Named, Typed, TypeOK
  <2>3. pc'[w] = "write" /\ Temp(w)' = Temp(w)
    BY <2>2 DEF Open, Goto, callVars, Temp, Typed, TypeOK
  <2>4. QED
    BY <2>2, <2>3 DEF Writing
<1>3. CASE n \in leftover
  BY <1>3 DEF Next, Write, vars, Call, TakeTicket, CannotOpen, Open, WriteBlock, Close, WriteFails, Shut, Rename,
         RenameFails, RemoveOld, Discard, Exit
<1>4. ASSUME NEW v \in Writers, pc[v] \in Writing, Temp(v) = n PROVE Owned(n)'
  <2>1. CASE Write(v)
    <3>1. ASSUME Rename(v) \/ Discard(v) PROVE FALSE
      <4>1. path[v] # n
        BY <1>4, <1>n, TempName DEF Writing, Named, Typed
      <4>2. dir'[n] = None
        BY <1>4, <1>n, <3>1, <4>1 DEF Rename, Discard, Typed, TypeOK
      <4>3. QED
        BY <1>1, <4>2
    <3>2. pc'[v] \in Writing
      BY <1>4, <2>1, <3>1 DEF Write, Writing, Typed, TypeOK, Goto, Call, TakeTicket, CannotOpen, Open, WriteBlock,
           Close, WriteFails, Shut, RenameFails, RemoveOld
    <3>3. Temp(v)' = Temp(v)
      BY <1>4, <3>2, CallKept DEF Writing, Named
    <3>4. QED
      BY <1>4, <3>2, <3>3
  <2>2. ASSUME NEW w \in Writers, Write(w), v # w PROVE Owned(n)'
    BY <1>4, <2>2, OthersStay DEF Stays
  <2>3. ASSUME NEW p \in Processes, Exit(p) PROVE Owned(n)'
    <3>1. CASE v[1] = p
      <4>1. v \in ThreadsOf(p)
        BY <3>1 DEF ThreadsOf, Writers
      <4>2. ticket[v] # None
        BY <1>4, FileStoreAssumption DEF Writing, Named, Typed, Called, Tickets
      <4>3. QED
        BY <1>4, <2>3, <4>1, <4>2 DEF Exit
    <3>2. CASE v[1] # p
      BY <1>4, <2>3, <3>2 DEF Exit, Temp
    <3>3. QED
      BY <3>1, <3>2
  <2>4. CASE UNCHANGED vars
    BY <1>4, <2>4 DEF vars, callVars, Temp
  <2>5. QED
    BY <2>1, <2>2, <2>3, <2>4 DEF Next
<1>5. QED
  BY <1>0, <1>2, <1>3, <1>4

-----------------------------------------------------------------------------
(* The invariant, and what follows.                                        *)

LEMMA Typing == IInv => Typed
BY DEF IInv, Typed, Opened

LEMMA InitInv == Init => IInv
BY InitTyped, InitTicketsDiffer, InitOneName, InitOpened, InitFiles DEF IInv, Typed

LEMMA StepInv ==
  ASSUME OneProcess, IInv, [Next]_vars
  PROVE  IInv'
<1>1. Typed
  BY Typing
<1>2. TypeOK' /\ Called'
  BY <1>1, StepTyped DEF Typed
<1>3. TicketsDiffer' /\ OneName' /\ Opened' /\ Ready' /\ Refused' /\ NoHalfWrittenFile' /\ NoTempLeft'
  BY <1>1, StepTicketsDiffer, StepOneName, StepOpened, StepReady, StepRefused, StepNoHalfWrittenFile,
     StepNoTempLeft DEF IInv
<1>4. QED
  BY <1>2, <1>3 DEF IInv

LEMMA Invariance == ASSUME OneProcess PROVE Spec => []IInv
BY InitInv, StepInv, PTL DEF Spec

\* A file never holds a part of a content or a mixture of two, whenever the process
\* is killed and however often it is started again.
THEOREM FilesAreWhole == ASSUME OneProcess PROVE Spec => []NoHalfWrittenFile
<1>1. IInv => NoHalfWrittenFile
  BY DEF IInv
<1>2. QED
  BY Invariance, <1>1, PTL

\* Every temporary file belongs to a write in progress, or to one that was killed.
THEOREM TempsAreRemoved == ASSUME OneProcess PROVE Spec => []NoTempLeft
<1>1. IInv => NoTempLeft
  BY DEF IInv
<1>2. QED
  BY Invariance, <1>1, PTL

\* What has been put in place under a name is never written to again.
THEOREM PlacedStays == ASSUME OneProcess PROVE Spec => PlacedIsFinal
<1>1. IInv /\ [Next]_vars => [\A p \in Paths : dir[p] # None => content'[dir[p]] = content[dir[p]]]_vars
  BY Typing, StepPlaced DEF IInv
<1>2. QED
  BY Invariance, <1>1, PTL DEF Spec, PlacedIsFinal

\* A file is there at every moment from its first write on, unless rename() refuses
\* to replace it.
THEOREM FilesRemain == ASSUME OneProcess PROVE Spec => FilesStay
<1>1. IInv /\ [Next]_vars => [\A p \in Paths : dir[p] # None /\ p \notin refused => dir'[p] # None]_vars
  <2> SUFFICES ASSUME IInv, [Next]_vars, NEW p \in Paths, dir[p] # None, p \notin refused
               PROVE  dir'[p] # None
    OBVIOUS
  <2>1. ASSUME NEW w \in Writers, RemoveOld(w), path[w] = p PROVE FALSE
    BY <2>1 DEF RemoveOld, IInv, Refused
  <2>2. QED
    BY <2>1, Typing, PathsAfter
<1>2. QED
  BY Invariance, <1>1, PTL DEF Spec, FilesStay

-----------------------------------------------------------------------------
(* write_file_atomic() implements AtomicFiles.                             *)

Files == [p \in Paths |-> FileAt(p)]
Calls == [w \in Writers |-> Pending(w)]

LEMMA WholeFile ==
  ASSUME NEW c, NEW d \in Data, c = Whole(d)
  PROVE  /\ \E e \in Data : c = Whole(e)
         /\ (CHOOSE e \in Data : c = Whole(e)) = d
BY WholeOfOne

\* A file is what its inode is.
LEMMA FilesKept ==
  ASSUME Typed, OneName, Opened, [Next]_vars, NEW p \in Paths, dir'[p] = dir[p]
  PROVE  FileAt(p)' = FileAt(p)
<1>1. CASE dir[p] = None
  BY <1>1 DEF FileAt
<1>2. CASE dir[p] # None
  <2>1. content'[dir[p]] = content[dir[p]]
    BY <1>2, StepPlaced
  <2>2. QED
    BY <1>2, <2>1 DEF FileAt, Whole
<1>3. QED
  BY <1>1, <1>2

LEMMA CallsKept ==
  ASSUME Typed, NEW w \in Writers, Write(w), pc[w] # "idle", pc'[w] # "idle",
         path'[w] = path[w], data'[w] = data[w]
  PROVE  Calls' = Calls
<1>1. ASSUME NEW v \in Writers PROVE Pending(v)' = Pending(v)
  BY <1>1, OthersStay DEF Pending, Stays
<1>2. QED
  BY <1>1 DEF Calls

\* A writer whose call has ended is in no call, and the others are where they were.
LEMMA CallsReturn ==
  ASSUME Typed, NEW w \in Writers, Write(w), pc'[w] = "idle"
  PROVE  Calls' = [Calls EXCEPT ![w] = None]
<1>1. ASSUME NEW v \in Writers PROVE Pending(v)' = IF v = w THEN None ELSE Pending(v)
  BY <1>1, OthersStay DEF Pending, Stays
<1>2. QED
  BY <1>1 DEF Calls

LEMMA InitAtomic == Init => Atomic!Init
BY NamesApart DEF Init, Atomic!Init, FileAt, Pending

LEMMA StepAtomic ==
  ASSUME OneProcess, IInv, [Next]_vars
  PROVE  [Atomic!Next]_(Atomic!vars)
<1> DEFINE Stutter == Files' = Files /\ Calls' = Calls /\ answer' = answer
           Goal == [Atomic!Next]_(Atomic!vars)
<1>i. /\ Typed /\ OneName /\ Opened /\ Ready
      /\ \A w \in Writers : pc[w] # "idle" => path[w] \in Paths /\ data[w] \in Data
  BY Typing DEF IInv, Called
<1>k. \A p \in Paths : dir'[p] = dir[p] => FileAt(p)' = FileAt(p)
  BY <1>i, FilesKept
<1>t. Stutter => Goal
  BY DEF Atomic!vars, Files, Calls
\* A writer in a call has something pending.
<1>p. \A w \in Writers :
        pc[w] # "idle" => /\ Calls[w] # None
                          /\ Calls[w].path = path[w] /\ Calls[w].data = data[w]
  BY <1>i, FileStoreAssumption DEF Calls, Pending
<1>r. ASSUME NEW w \in Writers, Write(w), pc[w] # "idle", NEW result \in {"true", "false"}, Return(w, result)
      PROVE  Atomic!Return(w, result)
  <2>1. pc'[w] = "idle" /\ answer' = [answer EXCEPT ![w] = result]
    BY <1>i, <1>r DEF Return, Goto, Typed, TypeOK
  <2>2. QED
    BY <1>i, <1>p, <1>r, <2>1, CallsReturn DEF Atomic!Return, Calls
<1>1. ASSUME NEW w \in Writers, NEW p \in Paths, NEW d \in Data, Call(w, p, d) PROVE Goal
  <2>1. Files' = Files
    BY <1>k, <1>1 DEF Call, Files
  <2>2. Pending(w) = None /\ Pending(w)' = [path |-> p, data |-> d]
    BY <1>1, <1>i DEF Call, Goto, Pending, Typed, TypeOK
  <2>3. \A v \in Writers : v # w => Pending(v)' = Pending(v)
    BY <1>1, <1>i DEF Call, Goto, Pending, Typed, TypeOK
  <2>4. Calls' = [Calls EXCEPT ![w] = [path |-> p, data |-> d]]
    BY <2>2, <2>3 DEF Calls
  <2>5. Atomic!Begin(w, p, d)
    BY <1>1, <2>1, <2>2, <2>4 DEF Call, Atomic!Begin, Files, Calls
  <2>6. QED
    BY <2>5 DEF Atomic!Next
<1>2. ASSUME NEW w \in Writers, \/ TakeTicket(w) \/ Open(w) \/ WriteBlock(w) \/ Close(w)
                                \/ WriteFails(w) \/ RenameFails(w)
      PROVE  Goal
  <2>1. answer' = answer
    BY <1>2 DEF TakeTicket, Open, WriteBlock, Close, WriteFails, Shut, RenameFails
  <2>2. pc[w] # "idle" /\ pc'[w] # "idle" /\ path'[w] = path[w] /\ data'[w] = data[w]
    BY <1>2, <1>i DEF TakeTicket, Open, WriteBlock, Close, WriteFails, Shut, RenameFails, Goto, callVars, Typed, TypeOK
  <2>3. \A p \in Paths : dir'[p] = dir[p]
    <3>1. ASSUME Rename(w) \/ RemoveOld(w) PROVE FALSE
      BY <1>2, <1>i, <3>1 DEF TakeTicket, Open, WriteBlock, Close, WriteFails, Shut, RenameFails, Rename, RemoveOld,
           Return, Goto, Typed, TypeOK
    <3>2. CASE Open(w)
      BY <1>i, <3>2, TempName DEF Open, Named, Typed, TypeOK
    <3>3. CASE ~ Open(w)
      BY <1>2, <3>3 DEF TakeTicket, WriteBlock, Close, WriteFails, Shut, RenameFails
    <3>4. QED
      BY <3>2, <3>3
  <2>4. Files' = Files
    BY <1>k, <2>3 DEF Files
  <2>5. QED
    BY <1>i, <1>2, <1>t, <2>1, <2>2, <2>4, CallsKept DEF Write
<1>3. ASSUME NEW w \in Writers, CannotOpen(w) \/ Discard(w) PROVE Goal
  <2>1. Return(w, "false") /\ pc[w] # "idle"
    BY <1>3 DEF CannotOpen, Discard
  <2>2. \A p \in Paths : dir'[p] = dir[p]
    <3>1. CASE CannotOpen(w)
      BY <3>1 DEF CannotOpen
    <3>2. CASE Discard(w)
      <4>1. Temp(w) \notin Paths /\ dir' = [dir EXCEPT ![Temp(w)] = None]
        BY <1>i, <3>2, TempName DEF Discard, Named, Typed
      <4>2. QED
        BY <1>i, <4>1, NamesApart DEF Typed, TypeOK
    <3>3. QED
      BY <1>3, <3>1, <3>2
  <2>3. Files' = Files
    BY <1>k, <2>2 DEF Files
  <2>4. Atomic!Fail(w)
    BY <1>3, <1>r, <2>1, <2>3 DEF Atomic!Fail, Files, Write
  <2>5. QED
    BY <2>4 DEF Atomic!Next
<1>4. ASSUME NEW w \in Writers, NEW p \in Paths, Rename(w), path[w] = p PROVE Goal
  <2>1. /\ Return(w, "true") /\ pc[w] # "idle" /\ pc[w] \in Named
        /\ data[w] \in Data /\ Temp(w) \in Names /\ Temp(w) \notin Paths
    BY <1>i, <1>4, TempName DEF Rename, Named, Typed
  <2>2. /\ \A q \in Paths : q # p => dir'[q] = dir[q]
        /\ dir'[p] = dir[Temp(w)]
    BY <1>i, <1>4, <2>1, NamesApart DEF Rename, Typed, TypeOK
  <2>3. dir'[p] # None /\ content'[dir'[p]] = Whole(data[w])
    BY <1>4, <1>i, <2>2 DEF Rename, Ready
  <2>4. FileAt(p)' = data[w]
    BY <2>1, <2>3, WholeFile DEF FileAt, Whole
  <2>5. Files' = [Files EXCEPT ![p] = data[w]]
    BY <1>k, <2>2, <2>4 DEF Files
  <2>6. Atomic!Succeed(w)
    BY <1>4, <1>p, <1>r, <2>1, <2>5 DEF Atomic!Succeed, Files, Calls, Write
  <2>7. QED
    BY <2>6 DEF Atomic!Next
<1>5. ASSUME NEW w \in Writers, NEW p \in Paths, RemoveOld(w), path[w] = p PROVE Goal
  <2>1. /\ answer' = answer /\ pc[w] # "idle" /\ pc'[w] # "idle" /\ path'[w] = path[w] /\ data'[w] = data[w]
    BY <1>i, <1>5 DEF RemoveOld, callVars, Goto, Typed, TypeOK
  <2>2. Calls' = Calls
    BY <1>i, <1>5, <2>1, CallsKept DEF Write
  <2>3. CASE dir' = dir
    BY <1>k, <1>t, <2>1, <2>2, <2>3 DEF Files
  <2>4. CASE dir' = [dir EXCEPT ![p] = None]
    <3>1. FileAt(p)' = None
      BY <1>i, <2>4, NamesApart DEF FileAt, Typed, TypeOK
    <3>2. \A q \in Paths : q # p => dir'[q] = dir[q]
      BY <1>i, <2>4 DEF Typed, TypeOK
    <3>3. Files' = [Files EXCEPT ![p] = None]
      BY <1>k, <3>1, <3>2 DEF Files
    <3>4. Atomic!GiveUp(w)
      BY <1>5, <1>p, <2>1, <2>2, <3>3 DEF Atomic!GiveUp, Files, Calls
    <3>5. QED
      BY <3>4 DEF Atomic!Next
  <2>5. QED
    BY <1>5, <2>3, <2>4 DEF RemoveOld
<1>6. ASSUME NEW p \in Processes, Exit(p) PROVE Goal
  <2>1. Files' = Files
    BY <1>k, <1>6 DEF Exit, Files
  <2>2. \A w \in Writers : w \in ThreadsOf(p) <=> w[1] = p
    BY DEF Writers, ThreadsOf
  <2>3. Calls' = [w \in Writers |-> IF w \in ThreadsOf(p) THEN None ELSE Calls[w]]
    <3>1. ASSUME NEW w \in Writers PROVE Pending(w)' = IF w \in ThreadsOf(p) THEN None ELSE Pending(w)
      BY <1>6, <2>2 DEF Exit, Pending
    <3>2. QED
      BY <3>1 DEF Calls
  <2>4. answer' = [w \in Writers |-> IF w \in ThreadsOf(p) THEN None ELSE answer[w]]
    BY <1>6, <2>2 DEF Exit
  <2>5. Atomic!Crash(ThreadsOf(p)) /\ ThreadsOf(p) \in SUBSET Writers
    BY <2>1, <2>3, <2>4 DEF Atomic!Crash, Files, Calls, ThreadsOf, Writers
  <2>6. QED
    BY <2>5 DEF Atomic!Next
<1>7. CASE UNCHANGED vars
  BY <1>t, <1>7 DEF vars, callVars, Files, Calls, FileAt, Pending
<1>8. ASSUME NEW w \in Writers, Rename(w) \/ RemoveOld(w) PROVE path[w] \in Paths
  BY <1>i, <1>8 DEF Rename, RemoveOld
<1>9. QED
  BY <1>1, <1>2, <1>3, <1>4, <1>5, <1>6, <1>7, <1>8 DEF Next, Write

\* The whole of ImplementsAtomicFiles: the file changes at the moment of the
\* rename, and a call that fails brings nothing new.
THEOREM WritesAreAtomic == ASSUME OneProcess PROVE Spec => ImplementsAtomicFiles
BY Invariance, InitAtomic, StepAtomic, PTL DEF Spec, ImplementsAtomicFiles, Atomic!Spec
=============================================================================
