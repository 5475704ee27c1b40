------------------------ MODULE ConfigReloaderProofs ------------------------
(***************************************************************************)
(* The reloader never loses track of a file it follows and never signals   *)
(* more often than files change, for any number of files, any includes and *)
(* any number of edits and crashes.                                         *)
(***************************************************************************)
EXTENDS ConfigReloader, FiniteSetTheorems, SequenceTheorems,
        WellFoundedInduction, TLAPS

Contents == Versions \cup {None}
Event == [file: Files, op: {"write", "remove", "rename"}]

\* Events are about files the reloader follows.
QueueOK ==
    /\ queue \in Seq(Event)
    /\ \A i \in DOMAIN queue : queue[i].file \in files

TypeOK ==
    /\ disk \in [Files -> Contents] /\ loaded \in [Files -> Contents]
    /\ cache \in [Files -> Contents]
    /\ edits \in Nat /\ crashes \in Nat /\ attempts \in Nat /\ signals \in Nat
    /\ up \in BOOLEAN /\ hup \in BOOLEAN /\ updated \in BOOLEAN
    /\ ticker \in BOOLEAN /\ blind \in BOOLEAN /\ rejected \in BOOLEAN
    /\ pc \in {"start", "watch", "fallback", "preload", "select", "drain", "reload"}
    /\ mode \in {"watch", "poll"}
    /\ files \in SUBSET Files /\ watched \in SUBSET files
    /\ deleted \in SUBSET files
    /\ ahead \in SUBSET Files /\ skipped \in SUBSET Files /\ moved \in SUBSET Files
    /\ QueueOK
    /\ pc \in {"start", "watch"} => files = {} /\ queue = <<>>
    /\ pc = "fallback" => mode = "poll"

\* The files of the server are files.
LEMMA ServerFilesType ==
    ASSUME disk \in [Files -> Contents]
    PROVE  ServerFiles \in SUBSET Files
  <1>1. 1 \in Files
    BY ReloaderAssumption DEF Files
  <1>2. disk[1] # None => Includes[disk[1]] \in SUBSET Files
    BY <1>1, ReloaderAssumption DEF Contents
  <1> QED
    BY <1>1, <1>2 DEF ServerFiles

\* Among some files there is a first one.
LEMMA FirstFile ==
    ASSUME NEW S \in SUBSET Files, S # {}
    PROVE  (CHOOSE x \in S : \A y \in S : x <= y) \in S
  <1>1. S \subseteq Nat
    BY DEF Files
  <1>2. PICK x \in S : \A y \in S : <<y, x>> \notin OpToRel(<, Nat)
    BY <1>1, NatLessThanWellFounded, WFMin
  <1>3. \A y \in S : ~(y < x)
    BY <1>1, <1>2 DEF OpToRel
  <1>4. \A y \in S : x <= y
    BY <1>1, <1>3
  <1> QED
    BY <1>4

\* What a file's change adds to the events, if it is watched.
LEMMA EventsType ==
    ASSUME TypeOK, NEW f \in Files, NEW ops \in Seq({"write", "remove", "rename"}),
           Events(f, ops)
    PROVE  /\ queue' \in Seq(Event)
           /\ \A i \in DOMAIN queue' : queue'[i].file \in files
           /\ \A i \in DOMAIN queue : i \in DOMAIN queue' /\ queue'[i] = queue[i]
           /\ f \in watched =>
                \A j \in DOMAIN ops :
                    \E i \in DOMAIN queue' : queue'[i] = [file |-> f, op |-> ops[j]]
  <1> DEFINE new == [i \in 1..Len(ops) |-> [file |-> f, op |-> ops[i]]]
  <1>1. new \in Seq(Event) /\ Len(new) = Len(ops)
    BY DEF Event
  <1>2. CASE f \notin watched
    BY <1>2 DEF Events, TypeOK, QueueOK
  <1>3. CASE f \in watched
    <2>1. queue' = queue \o new
      BY <1>3 DEF Events
    <2>2. /\ queue' \in Seq(Event) /\ Len(queue') = Len(queue) + Len(ops)
          /\ \A i \in 1..Len(queue') :
                queue'[i] = IF i <= Len(queue) THEN queue[i] ELSE new[i - Len(queue)]
      BY <1>1, <2>1, ConcatProperties DEF TypeOK, QueueOK
    <2>3. DOMAIN queue = 1..Len(queue) /\ DOMAIN queue' = 1..Len(queue')
          /\ DOMAIN ops = 1..Len(ops) /\ Len(queue) \in Nat /\ Len(ops) \in Nat
      BY <2>2, LenProperties DEF TypeOK, QueueOK
    <2>4. ASSUME NEW i \in DOMAIN queue' PROVE queue'[i].file \in files
      <3>1. CASE i <= Len(queue)
        <4>1. i \in 1..Len(queue') /\ i \in 1..Len(queue)
          BY <2>3, <3>1
        <4>2. queue'[i] = queue[i]
          BY <2>2, <3>1, <4>1
        <4> QED
          BY <2>3, <4>1, <4>2 DEF TypeOK, QueueOK
      <3>2. CASE i > Len(queue)
        <4>1. i - Len(queue) \in 1..Len(ops)
          BY <2>2, <2>3, <2>4, <3>2
        <4>2. queue'[i] = new[i - Len(queue)]
          BY <2>2, <2>3, <2>4, <3>2
        <4> QED
          BY <1>3, <4>1, <4>2 DEF TypeOK, QueueOK
      <3> QED
        BY <2>3, <2>4, <3>1, <3>2
    <2>5. ASSUME NEW j \in DOMAIN ops
          PROVE  \E i \in DOMAIN queue' : queue'[i] = [file |-> f, op |-> ops[j]]
      <3>1. Len(queue) + j \in DOMAIN queue'
        BY <2>2, <2>3, <2>5
      <3>2. ~(Len(queue) + j <= Len(queue)) /\ (Len(queue) + j) - Len(queue) = j
        BY <2>3, <2>5
      <3>3. queue'[Len(queue) + j] = new[j]
        BY <2>2, <2>3, <3>1, <3>2
      <3>4. new[j] = [file |-> f, op |-> ops[j]]
        BY <2>3, <2>5
      <3> QED
        BY <3>1, <3>3, <3>4
    <2>6. ASSUME NEW i \in DOMAIN queue
          PROVE  i \in DOMAIN queue' /\ queue'[i] = queue[i]
      <3>1. i \in 1..Len(queue') /\ i <= Len(queue)
        BY <2>2, <2>3, <2>6
      <3> QED
        BY <2>2, <2>3, <3>1
    <2> QED
      BY <2>2, <2>4, <2>5, <2>6
  <1> QED
    BY <1>2, <1>3

\* What is left of the events once the first one was handled.
LEMMA TailType ==
    ASSUME TypeOK, queue # <<>>, queue' = Tail(queue)
    PROVE  /\ queue' \in Seq(Event) /\ Head(queue) = queue[1]
           /\ 1 \in DOMAIN queue /\ Head(queue).file \in files
           /\ \A i \in DOMAIN queue' : i + 1 \in DOMAIN queue /\ queue'[i] = queue[i + 1]
           /\ \A i \in DOMAIN queue : i # 1 => /\ i - 1 \in DOMAIN queue'
                                               /\ queue'[i - 1] = queue[i]
  <1>1. queue \in Seq(Event) /\ Len(queue) \in Nat /\ DOMAIN queue = 1..Len(queue)
    BY LenProperties DEF TypeOK, QueueOK
  <1>2. Len(queue) # 0
    BY <1>1, EmptySeq
  <1>3. /\ queue' \in Seq(Event) /\ Len(queue') = Len(queue) - 1
        /\ Head(queue) = queue[1]
        /\ \A i \in 1..Len(queue') : queue'[i] = queue[i + 1]
    BY <1>1, <1>2
  <1>4. DOMAIN queue' = 1..Len(queue')
    BY <1>3, LenProperties
  <1>5. 1 \in DOMAIN queue
    BY <1>1, <1>2
  <1>6. \A i \in DOMAIN queue' : i + 1 \in DOMAIN queue /\ queue'[i] = queue[i + 1]
    BY <1>1, <1>3, <1>4
  <1>7. ASSUME NEW i \in DOMAIN queue, i # 1
        PROVE  i - 1 \in DOMAIN queue' /\ queue'[i - 1] = queue[i]
    <2>1. i - 1 \in 1..Len(queue')
      BY <1>1, <1>3, <1>7
    <2>2. queue'[i - 1] = queue[(i - 1) + 1] /\ (i - 1) + 1 = i
      BY <1>1, <1>3, <1>7, <2>1
    <2> QED
      BY <1>4, <2>1, <2>2
  <1> QED
    BY <1>3, <1>5, <1>6, <1>7 DEF TypeOK, QueueOK
\* The initial states are well-typed.
LEMMA InitType == Init => TypeOK
  <1> SUFFICES ASSUME Init PROVE TypeOK
    OBVIOUS
  <1>1. disk \in [Files -> Contents] /\ cache \in [Files -> Contents]
    BY DEF Init, Contents
  <1>2. queue \in Seq(Event) /\ DOMAIN queue = {}
    BY DEF Init
  <1> QED
    BY <1>1, <1>2 DEF Init, TypeOK, QueueOK

\* The end of the process leaves nothing behind that is not well-typed.
LEMMA ExitType ==
    ASSUME /\ pc' = "start" /\ mode' = "watch" /\ files' = {} /\ watched' = {}
           /\ queue' = <<>> /\ cache' = [f \in Files |-> None] /\ updated' = FALSE
           /\ deleted' = {} /\ attempts' = 0
           /\ ahead' = {} /\ skipped' = {} /\ moved' = {}
    PROVE  /\ pc' \in {"start", "watch", "fallback", "preload", "select", "drain", "reload"}
           /\ mode' \in {"watch", "poll"}
           /\ files' \in SUBSET Files /\ watched' \in SUBSET files'
           /\ deleted' \in SUBSET files' /\ cache' \in [Files -> Contents]
           /\ ahead' \in SUBSET Files /\ skipped' \in SUBSET Files
           /\ moved' \in SUBSET Files
           /\ QueueOK'
           /\ attempts' \in Nat /\ updated' \in BOOLEAN
  <1>1. queue' \in Seq(Event) /\ DOMAIN queue' = {}
    OBVIOUS
  <1> QED
    BY <1>1 DEF Contents, QueueOK

\* A file's change keeps the state well-typed, whatever it is.
LEMMA EditType ==
    ASSUME TypeOK, NEW f \in Files, NEW v \in Contents, Edit(f, v),
           NEW ops \in Seq({"write", "remove", "rename"}), Events(f, ops),
           watched' \in SUBSET watched, moved' \in SUBSET Files
    PROVE  TypeOK'
  <1>1. disk' \in [Files -> Contents] /\ edits' \in Nat
    BY DEF Edit, TypeOK
  <1>2. queue' \in Seq(Event) /\ \A i \in DOMAIN queue' : queue'[i].file \in files
    BY EventsType
  <1> QED
    BY <1>1, <1>2 DEF Edit, TypeOK, QueueOK, serverVars, loopVars

\* A digest is recorded for a file the reloader follows.
LEMMA RecordType ==
    ASSUME TypeOK, NEW f \in files, Record(f)
    PROVE  /\ cache' \in [Files -> Contents] /\ updated' \in BOOLEAN
           /\ ahead' \in SUBSET Files /\ skipped' \in SUBSET Files
  <1> USE DEF TypeOK
  <1>1. f \in Files /\ disk[f] \in Contents
    OBVIOUS
  <1>2. CASE Changed(f) /\ ~updated
    BY <1>1, <1>2 DEF Record
  <1>3. CASE ~(Changed(f) /\ ~updated)
    BY <1>1, <1>3 DEF Record
  <1> QED
    BY <1>2, <1>3

\* What a file's change may tell the reloader.
LEMMA ChangeEvents ==
    ASSUME NEW f \in Files, Overwrite(f) \/ Replace(f) \/ Remove(f) \/ MoveAway(f)
    PROVE  \E ops \in Seq({"write", "remove", "rename"}) : Events(f, ops)
  <1> DEFINE Ops == {"write", "remove", "rename"}
  <1>1. /\ <<"write">> \in Seq(Ops) /\ <<"remove">> \in Seq(Ops)
        /\ <<"rename">> \in Seq(Ops) /\ <<"write", "remove">> \in Seq(Ops)
    OBVIOUS
  <1>2. \/ Events(f, <<"write">>) \/ Events(f, <<"remove">>)
        \/ Events(f, <<"rename">>) \/ Events(f, <<"write", "remove">>)
    BY DEF Overwrite, Replace, Remove, MoveAway
  <1> QED
    BY <1>1, <1>2

\* Every step keeps the state well-typed, one case per action.
LEMMA NextType == TypeOK /\ [Next]_vars => TypeOK'
  <1> SUFFICES ASSUME TypeOK, [Next]_vars PROVE TypeOK'
    OBVIOUS
  <1> USE DEF TypeOK, diskVars, serverVars, watchVars, loopVars
  <1>0. UNCHANGED <<queue, files>> => QueueOK'
    BY DEF QueueOK
  <1>1. CASE FindServer
    BY <1>0, <1>1, ReloaderAssumption DEF FindServer
  <1>2. CASE Watch
    <2>1. DOMAIN queue = {} /\ deleted = {}
      BY <1>2 DEF Watch
    <2>2. files' \in SUBSET Files /\ watched' \in SUBSET files'
      BY <1>2, ServerFilesType DEF Watch
    <2> QED
      BY <1>2, <2>1, <2>2 DEF Watch, QueueOK
  <1>15. CASE Fallback
    <2>1. files' \in SUBSET Files /\ files \subseteq files'
      BY <1>15, ServerFilesType DEF Fallback
    <2> QED
      BY <1>15, <2>1 DEF Fallback, QueueOK
  <1>3. CASE Preload
    BY <1>0, <1>3 DEF Preload, Contents
  <1>4. CASE StartFails
    BY <1>4, ExitType DEF StartFails, Exit
  <1>5. CASE HandleEvent
    <2>1. QueueOK' /\ Head(queue).file \in files
      BY <1>5, TailType DEF HandleEvent, QueueOK
    <2>2. CASE Head(queue).op = "remove"
      BY <1>5, <2>1, <2>2 DEF HandleEvent
    <2>3. CASE Record(Head(queue).file) /\ UNCHANGED deleted
      <3>1. /\ cache' \in [Files -> Contents] /\ updated' \in BOOLEAN
            /\ ahead' \in SUBSET Files /\ skipped' \in SUBSET Files
        BY <2>1, <2>3, RecordType
      <3> QED
        BY <1>5, <2>1, <2>3, <3>1 DEF HandleEvent
    <2> QED
      BY <1>5, <2>2, <2>3 DEF HandleEvent
  <1>6. CASE EndBatch
    BY <1>0, <1>6 DEF EndBatch
  <1>7. CASE Tick
    BY <1>0, <1>7, FirstFile DEF Tick, Changed
  <1>8. CASE Poll
    BY <1>0, <1>8 DEF Poll, Contents
  <1>9. CASE Signal
    <2>1. signals' \in Nat /\ attempts' \in Nat
      BY <1>9 DEF Signal
    <2> QED
      BY <1>0, <1>9, <2>1 DEF Signal
  <1>10. CASE ReloadFails
    <2>1. CASE Exit
      BY <2>1, ExitType DEF Exit
    <2>2. CASE attempts' = attempts + 1
      <3>1. attempts' \in Nat
        BY <2>2
      <3>2. CASE attempts > MaxRetries
        BY <1>10, <2>1, <3>2 DEF ReloadFails
      <3> QED
        BY <1>0, <1>10, <3>1, <3>2 DEF ReloadFails
    <2> QED
      BY <1>10, <2>1, <2>2 DEF ReloadFails
  <1>11. CASE ReloaderCrash
    <2>1. crashes' \in Nat
      BY <1>11 DEF ReloaderCrash
    <2> QED
      BY <1>11, <2>1, ExitType DEF ReloaderCrash
  <1>12. CASE ServerReload \/ ServerStart \/ ServerCrash
    <2>1. crashes' \in Nat
      BY <1>12 DEF ServerReload, ServerStart, ServerCrash
    <2>2. ahead' \in SUBSET Files /\ loaded' \in [Files -> Contents]
      BY <1>12 DEF ServerReload, ServerStart, ServerCrash, Reads
    <2> QED
      BY <1>0, <1>12, <2>1, <2>2 DEF ServerReload, ServerStart, ServerCrash, Reads
  <1>13. ASSUME NEW f \in Files, Overwrite(f) \/ Replace(f) \/ Remove(f) \/ MoveAway(f)
         PROVE  TypeOK'
    <2>1. PICK v \in Contents : Edit(f, v)
      BY <1>13 DEF Overwrite, Replace, Remove, MoveAway, Contents
    <2>2. PICK ops \in Seq({"write", "remove", "rename"}) : Events(f, ops)
      BY <1>13, ChangeEvents
    <2>3. watched' \in SUBSET watched /\ moved' \in SUBSET Files
      BY <1>13 DEF Overwrite, Replace, Remove, MoveAway
    <2> QED
      BY <2>1, <2>2, <2>3, EditType
  <1>14. CASE UNCHANGED vars
    BY <1>0, <1>14 DEF vars
  <1> QED
    BY <1>0, <1>1, <1>2, <1>3, <1>4, <1>5, <1>6, <1>7, <1>8, <1>9, <1>10, <1>11, <1>12,
       <1>13, <1>14, <1>15 DEF Next, Reloader, Environment
\* Every reachable state of the reloader, its files and its server is
\* well-typed.
THEOREM TypeCorrect == Spec => []TypeOK
  <1> QED
    BY InitType, NextType, PTL DEF Spec
-----------------------------------------------------------------------------
(* Every signal is paid for. *)

Counting == pc \in {"select", "drain", "reload"}

\* The files whose digest in the cache is not that of their content.
Dirty == {f \in files : cache[f] # disk[f]}

\* What was signalled, is about to be, and may come to be.
Due == signals + (IF updated THEN 1 ELSE 0) + (IF Counting THEN Cardinality(Dirty) ELSE 0)

\* A change that is not known yet has its edit left to pay with; a signal is
\* sent for a change that was recorded.
PaidInv ==
    /\ \A f \in Files \ files : cache[f] = None
    /\ pc \in {"start", "watch", "fallback", "preload", "select"} => ~updated
    /\ pc = "reload" => updated
    /\ Due <= edits
\* The files whose digest is stale can be counted.
LEMMA DirtyCounts ==
    ASSUME NEW S \in SUBSET Files
    PROVE  IsFiniteSet(S) /\ Cardinality(S) \in Nat
  <1>1. IsFiniteSet(Files)
    BY ReloaderAssumption, FS_Interval DEF Files
  <1>2. IsFiniteSet(S)
    BY <1>1, FS_Subset
  <1> QED
    BY <1>2, FS_CardinalityType

\* What is due is a number, and no less than what was signalled.
LEMMA DueType ==
    ASSUME TypeOK
    PROVE  /\ Cardinality(Dirty) \in Nat /\ IsFiniteSet(Dirty)
           /\ Due \in Nat /\ signals <= Due
  <1>1. Dirty \in SUBSET Files
    BY DEF Dirty, TypeOK
  <1>2. Cardinality(Dirty) \in Nat /\ IsFiniteSet(Dirty)
    BY <1>1, DirtyCounts
  <1>3. signals \in Nat
    BY DEF TypeOK
  <1> QED
    BY <1>2, <1>3 DEF Due

\* A step that changes no file, digest or signal leaves due what was.
LEMMA DueKept ==
    ASSUME TypeOK, PaidInv, Counting' => Counting,
           UNCHANGED <<cache, files, disk, edits, signals, updated>>
    PROVE  (Due <= edits)'
  <1>1. Dirty' = Dirty
    BY DEF Dirty
  <1>2. signals \in Nat /\ edits \in Nat
    BY DEF TypeOK
  <1> QED
    BY <1>1, <1>2, DueType DEF PaidInv, Due

\* A process that does not look at the files has nothing due.
LEMMA DueDrops ==
    ASSUME TypeOK, PaidInv, ~Counting', ~updated', UNCHANGED <<edits, signals>>
    PROVE  (Due <= edits)'
  <1>1. signals \in Nat /\ edits \in Nat
    BY DEF TypeOK
  <1> QED
    BY <1>1, DueType DEF PaidInv, Due

\* A digest that is recorded turns a stale file into the signal that is due.
LEMMA DueRecorded ==
    ASSUME TypeOK, PaidInv, NEW f \in files, Changed(f), ~updated, updated',
           Counting, cache' = [cache EXCEPT ![f] = disk[f]],
           UNCHANGED <<files, disk, edits, signals>>
    PROVE  (Due <= edits)'
  <1>1. f \in Dirty
    BY DEF Dirty, Changed
  <1>2. Dirty' = Dirty \ {f}
    BY DEF Dirty, TypeOK
  <1>3. Cardinality(Dirty') = Cardinality(Dirty) - 1
    BY <1>1, <1>2, DueType, FS_RemoveElement
  <1>4. Due = signals + Cardinality(Dirty)
    BY DueType DEF Due, TypeOK
  <1>5. signals \in Nat /\ edits \in Nat /\ Cardinality(Dirty) \in Nat
    BY DueType DEF TypeOK
  <1>6. Due' = signals + 1 + Cardinality(Dirty') \/ Due' = signals + 1
    BY <1>3, <1>5 DEF Due
  <1>7. Cardinality(Dirty) # 0
    BY <1>1, DueType, FS_EmptySet
  <1> QED
    BY <1>3, <1>4, <1>5, <1>6, <1>7 DEF PaidInv

\* A file's change makes one digest stale at most, and is an edit.
LEMMA DueEdited ==
    ASSUME TypeOK, PaidInv, NEW f \in Files, NEW v, Edit(f, v)
    PROVE  PaidInv'
  <1>1. UNCHANGED <<pc, files, cache, updated, signals>> /\ edits' = edits + 1
    BY DEF Edit, loopVars
  <1>2. Dirty' \subseteq Dirty \cup {f}
    BY <1>1 DEF Edit, Dirty, TypeOK
  <1>3. Cardinality(Dirty') <= Cardinality(Dirty \cup {f})
    BY <1>2, DueType, FS_AddElement, FS_Subset
  <1>4. /\ Cardinality(Dirty \cup {f}) \in Nat
        /\ Cardinality(Dirty \cup {f}) <= Cardinality(Dirty) + 1
    BY DueType, FS_AddElement
  <1>5. signals \in Nat /\ edits \in Nat /\ Cardinality(Dirty) \in Nat
    BY DueType DEF TypeOK
  <1>6. Cardinality(Dirty') \in Nat
    <2>1. Dirty' \in SUBSET Files
      BY <1>1 DEF Dirty, TypeOK
    <2> QED
      BY <2>1, DirtyCounts
  <1>7. (Due <= edits)'
    BY <1>1, <1>3, <1>4, <1>5, <1>6 DEF Due, PaidInv, Counting
  <1> QED
    BY <1>1, <1>7 DEF PaidInv

\* The first process has sent nothing and owes nothing.
LEMMA InitPaid == Init => PaidInv
  BY DEF Init, PaidInv, Due, Counting

\* Every step keeps the account, one case per action.
LEMMA NextPaid == TypeOK /\ PaidInv /\ [Next]_vars => PaidInv'
  <1> SUFFICES ASSUME TypeOK, PaidInv, [Next]_vars PROVE PaidInv'
    OBVIOUS
  <1> USE DEF diskVars, serverVars, watchVars, loopVars
  <1>1. CASE Exit \/ ReloaderCrash
    <2>1. (Due <= edits)'
      BY <1>1, DueDrops DEF Exit, ReloaderCrash, Counting
    <2> QED
      BY <1>1, <2>1 DEF Exit, ReloaderCrash, PaidInv
  <1>2. CASE FindServer
    <2>1. (Due <= edits)'
      BY <1>2, DueKept DEF FindServer, Counting
    <2> QED
      BY <1>2, <2>1 DEF FindServer, PaidInv
  <1>3. CASE Watch
    <2>1. ~updated'
      BY <1>3 DEF Watch, PaidInv
    <2>2. (Due <= edits)'
      BY <1>3, <2>1, DueDrops DEF Watch, Counting
    <2>3. files = {}
      BY <1>3 DEF Watch, TypeOK
    <2> QED
      BY <1>3, <2>1, <2>2, <2>3 DEF Watch, PaidInv
  <1>13. CASE Fallback
    <2>1. ~updated'
      BY <1>13 DEF Fallback, PaidInv
    <2>2. (Due <= edits)'
      BY <1>13, <2>1, DueDrops DEF Fallback, Counting
    <2> QED
      BY <1>13, <2>1, <2>2 DEF Fallback, PaidInv
  <1>4. CASE Preload
    <2>1. ~updated' /\ ~updated
      BY <1>4 DEF Preload, PaidInv
    <2>2. Dirty' = {}
      BY <1>4 DEF Preload, Dirty, TypeOK
    <2>3. Cardinality(Dirty') = 0
      BY <2>2, FS_EmptySet
    <2>4. Due' = signals /\ signals \in Nat /\ edits \in Nat
      BY <1>4, <2>1, <2>3 DEF Preload, Due, TypeOK
    <2>5. (Due <= edits)'
      BY <1>4, <2>4, DueType DEF Preload, PaidInv
    <2> QED
      BY <1>4, <2>1, <2>5 DEF Preload, PaidInv
  <1>5. CASE HandleEvent
    <2>1. Counting /\ Counting' /\ pc' = "drain"
      BY <1>5 DEF HandleEvent, Counting
    <2>2. UNCHANGED <<files, disk, edits, signals>>
      BY <1>5 DEF HandleEvent
    <2>3. CASE UNCHANGED <<cache, updated>>
      BY <2>1, <2>2, <2>3, DueKept DEF PaidInv
    <2>4. CASE Record(Head(queue).file) /\ Changed(Head(queue).file) /\ ~updated
      <3>1. Head(queue).file \in files
        BY <1>5, TailType DEF HandleEvent
      <3>2. (Due <= edits)'
        BY <2>1, <2>2, <2>4, <3>1, DueRecorded DEF Record
      <3>3. \A f \in Files \ files : cache'[f] = None
        BY <2>4, <3>1 DEF Record, PaidInv, TypeOK
      <3> QED
        BY <2>1, <2>2, <3>2, <3>3 DEF PaidInv
    <2> QED
      BY <1>5, <2>3, <2>4 DEF HandleEvent, Record
  <1>6. CASE EndBatch
    <2>1. (Due <= edits)'
      BY <1>6, DueKept DEF EndBatch, Counting
    <2> QED
      BY <1>6, <2>1 DEF EndBatch, PaidInv
  <1>7. CASE Tick
    <2> DEFINE new == {f \in {x \in deleted : disk[x] # None} : Changed(f)}
               first == CHOOSE x \in new : \A y \in new : x <= y
    <2>1. UNCHANGED <<files, disk, edits, signals>> /\ Counting /\ ~updated
      BY <1>7 DEF Tick, Counting, PaidInv
    <2>2. updated' = (new # {}) /\ pc' = IF new # {} THEN "reload" ELSE "select"
      BY <1>7 DEF Tick
    <2>3. CASE new = {}
      <3>1. UNCHANGED <<cache, updated>> /\ pc' = "select"
        BY <1>7, <2>1, <2>2, <2>3 DEF Tick, TypeOK
      <3> QED
        BY <2>1, <3>1, DueKept DEF PaidInv
    <2>4. CASE new # {}
      <3>1. cache' = [cache EXCEPT ![first] = disk[first]]
        BY <1>7, <2>4 DEF Tick
      <3>2. first \in new
        <4>1. new \in SUBSET Files
          BY DEF TypeOK
        <4> HIDE DEF new
        <4> QED
          BY <2>4, <4>1, FirstFile
      <3>3. first \in files /\ Changed(first)
        BY <3>2 DEF TypeOK
      <3> HIDE DEF first
      <3>4. updated' /\ pc' = "reload"
        BY <2>2, <2>4
      <3>5. (Due <= edits)'
        BY <2>1, <3>1, <3>3, <3>4, DueRecorded
      <3>6. \A f \in Files \ files : cache'[f] = None
        BY <3>1, <3>3 DEF PaidInv, TypeOK
      <3> QED
        BY <2>1, <3>4, <3>5, <3>6 DEF PaidInv
    <2> QED
      BY <2>3, <2>4
  <1>8. CASE Poll
    <2>1. UNCHANGED <<files, disk, edits, signals>> /\ Counting /\ ~updated
      BY <1>8 DEF Poll, Counting, PaidInv
    <2>2. Dirty' = {}
      BY <1>8 DEF Poll, Dirty, TypeOK
    <2>3. Cardinality(Dirty') = 0
      BY <2>2, FS_EmptySet
    <2>4. cache' # cache => Cardinality(Dirty) >= 1
      <3> SUFFICES ASSUME cache' # cache PROVE Cardinality(Dirty) >= 1
        OBVIOUS
      <3>1. cache' = [f \in Files |-> IF f \in files THEN disk[f] ELSE None]
        BY <1>8 DEF Poll
      <3>2. PICK f \in Files : cache'[f] # cache[f]
        BY <3>1 DEF TypeOK
      <3>3. f \in Dirty
        BY <3>1, <3>2 DEF Dirty, PaidInv
      <3> QED
        BY <3>3, DueType, FS_EmptySet
    <2>5. updated' = (cache' # cache) /\ pc' = IF cache' # cache THEN "reload" ELSE "select"
      BY <1>8 DEF Poll
    <2>6. signals \in Nat /\ edits \in Nat /\ Cardinality(Dirty) \in Nat
      BY DueType DEF TypeOK
    <2>7. Due = signals + Cardinality(Dirty)
      BY <2>1, <2>6 DEF Due
    <2>8. Due' = signals + (IF updated' THEN 1 ELSE 0)
      BY <2>1, <2>3, <2>6 DEF Due
    <2>9. (Due <= edits)'
      <3>1. Due <= edits /\ edits' = edits
        BY <2>1 DEF PaidInv
      <3>2. CASE cache' # cache
        BY <2>4, <2>5, <2>6, <2>7, <2>8, <3>1, <3>2
      <3>3. CASE cache' = cache
        <4>1. ~updated'
          BY <2>5, <3>3
        <4>2. Due' = signals
          BY <2>6, <2>8, <4>1
        <4> QED
          BY <2>6, <2>7, <3>1, <4>2
      <3> QED
        BY <3>2, <3>3
    <2>10. \A f \in Files \ files : cache'[f] = None
      BY <1>8 DEF Poll
    <2> QED
      BY <2>1, <2>5, <2>9, <2>10 DEF PaidInv
  <1>9. CASE Signal
    <2>1. Dirty' = Dirty /\ Counting /\ Counting' /\ updated /\ ~updated'
      BY <1>9 DEF Signal, Dirty, Counting, PaidInv
    <2>2. signals \in Nat /\ edits \in Nat /\ Cardinality(Dirty) \in Nat
      BY DueType DEF TypeOK
    <2>3. signals' = signals + 1 /\ edits' = edits
      BY <1>9 DEF Signal
    <2>4. Due = signals + 1 + Cardinality(Dirty) /\ Due' = signals + 1 + Cardinality(Dirty)
      BY <2>1, <2>2, <2>3 DEF Due
    <2>5. (Due <= edits)'
      BY <2>3, <2>4 DEF PaidInv
    <2> QED
      BY <1>9, <2>1, <2>5 DEF Signal, PaidInv
  <1>10. CASE ReloadFails /\ ~Exit
    <2>1. (Due <= edits)'
      BY <1>10, DueKept DEF ReloadFails, Counting
    <2> QED
      BY <1>10, <2>1 DEF ReloadFails, PaidInv
  <1>11. CASE ServerReload \/ ServerStart \/ ServerCrash \/ UNCHANGED vars
    <2>1. UNCHANGED <<pc, cache, files, disk, edits, signals, updated>>
      BY <1>11 DEF ServerReload, ServerStart, ServerCrash, vars
    <2>2. (Due <= edits)'
      BY <2>1, DueKept DEF Counting
    <2> QED
      BY <2>1, <2>2 DEF PaidInv
  <1>12. ASSUME NEW f \in Files, Overwrite(f) \/ Replace(f) \/ Remove(f) \/ MoveAway(f)
         PROVE  PaidInv'
    <2>1. PICK v : Edit(f, v)
      BY <1>12 DEF Overwrite, Replace, Remove, MoveAway
    <2> QED
      BY <2>1, DueEdited
  <1> QED
    BY <1>1, <1>2, <1>3, <1>4, <1>5, <1>6, <1>7, <1>8, <1>9, <1>10, <1>11, <1>12,
       <1>13 DEF Next, Reloader, Environment, StartFails

\* However events are batched, digests skipped, files removed and watched again,
\* and processes restarted, the reloader signals the server no more often than
\* files have changed.
THEOREM NoStorm == Spec => []NoReloadStorm
  <1>1. TypeOK /\ PaidInv => NoReloadStorm
    <2> SUFFICES ASSUME TypeOK, PaidInv PROVE signals <= edits
      BY DEF NoReloadStorm
    <2>1. signals \in Nat /\ edits \in Nat
      BY DEF TypeOK
    <2> QED
      BY <2>1, DueType DEF PaidInv
  <1> QED
    BY <1>1, InitPaid, NextPaid, TypeCorrect, PTL DEF Spec
-----------------------------------------------------------------------------
(* No file is lost track of. *)

Watching == mode = "watch" /\ pc \in {"preload", "select", "drain", "reload"}

\* What keeps a file from being forgotten once its watch has ended.
Remembered(f) ==
    \/ f \in moved
    \/ \E i \in DOMAIN queue : queue[i] = [file |-> f, op |-> "remove"]
    \/ f \in deleted /\ (ticker \/ pc = "drain")

\* The invariant, file by file, before and after a step.
LEMMA FollowedByFile ==
    /\ WatchesFollowFiles <=> (Watching => \A f \in files \ watched : Remembered(f))
    /\ WatchesFollowFiles' <=>
          (Watching' => \A f \in files' \ watched' : Remembered(f)')
  BY DEF WatchesFollowFiles, Followed, Watching, Remembered

\* A step that forgets nothing keeps every file followed.
LEMMA FollowedKept ==
    ASSUME WatchesFollowFiles, Watching' => Watching,
           UNCHANGED <<files, watched, queue, moved, deleted, ticker>>,
           pc = "drain" => pc' = "drain"
    PROVE  WatchesFollowFiles'
  <1>1. \A f : Remembered(f) => Remembered(f)'
    BY DEF Remembered
  <1> QED
    BY <1>1, FollowedByFile

\* A file's change ends its watch with a removal in the queue, or with a move.
LEMMA FollowedEdited ==
    ASSUME TypeOK, WatchesFollowFiles, NEW f \in Files,
           Overwrite(f) \/ Replace(f) \/ Remove(f) \/ MoveAway(f)
    PROVE  WatchesFollowFiles'
  <1>1. UNCHANGED <<mode, pc, files, deleted, ticker>>
    BY DEF Overwrite, Replace, Remove, MoveAway, Edit, loopVars
  <1>2. PICK ops \in Seq({"write", "remove", "rename"}) : Events(f, ops)
    BY ChangeEvents
  <1>3. \A i \in DOMAIN queue : i \in DOMAIN queue' /\ queue'[i] = queue[i]
    BY <1>2, EventsType
  <1>4. moved \subseteq moved'
    BY DEF Overwrite, Replace, Remove, MoveAway
  <1>5. \A g : Remembered(g) => Remembered(g)'
    BY <1>1, <1>3, <1>4 DEF Remembered
  <1>6. CASE watched' = watched
    BY <1>1, <1>5, <1>6, FollowedByFile DEF Watching
  <1>7. CASE watched' = watched \ {f}
    <2>1. f \in watched => Remembered(f)'
      <3> SUFFICES ASSUME f \in watched PROVE Remembered(f)'
        OBVIOUS
      <3>1. CASE MoveAway(f)
        BY <3>1 DEF MoveAway, Remembered
      <3>2. CASE Remove(f)
        <4>1. <<"remove">> \in Seq({"write", "remove", "rename"}) /\ 1 \in DOMAIN <<"remove">>
          OBVIOUS
        <4>2. \E i \in DOMAIN queue' : queue'[i] = [file |-> f, op |-> <<"remove">>[1]]
          BY <3>2, <4>1, EventsType DEF Remove
        <4> QED
          BY <4>2 DEF Remembered
      <3>3. CASE Replace(f)
        <4>1. /\ <<"write", "remove">> \in Seq({"write", "remove", "rename"})
              /\ 2 \in DOMAIN <<"write", "remove">>
          OBVIOUS
        <4>2. \E i \in DOMAIN queue' :
                  queue'[i] = [file |-> f, op |-> <<"write", "remove">>[2]]
          BY <3>3, <4>1, EventsType DEF Replace
        <4> QED
          BY <4>2 DEF Remembered
      <3>4. CASE Overwrite(f)
        BY <1>1, <1>5, <1>7, <3>4 DEF Overwrite
      <3> QED
        BY <3>1, <3>2, <3>3, <3>4
    <2> QED
      BY <1>1, <1>5, <1>7, <2>1, FollowedByFile DEF Watching
  <1> QED
    BY <1>6, <1>7 DEF Overwrite, Replace, Remove, MoveAway

\* The event that is handled is remembered among the deleted files, the others
\* stay in the queue.
LEMMA FollowedHandled ==
    ASSUME TypeOK, WatchesFollowFiles, HandleEvent
    PROVE  WatchesFollowFiles'
  <1>1. /\ UNCHANGED <<mode, files, watched, moved, ticker>> /\ pc' = "drain"
        /\ Watching /\ deleted \subseteq deleted'
    BY DEF HandleEvent, Watching
  <1>2. /\ Head(queue) = queue[1]
        /\ \A i \in DOMAIN queue : i # 1 => /\ i - 1 \in DOMAIN queue'
                                            /\ queue'[i - 1] = queue[i]
    BY TailType DEF HandleEvent
  <1>3. \A f : queue[1] = [file |-> f, op |-> "remove"] => f \in deleted'
    BY <1>2 DEF HandleEvent
  <1>4. ASSUME NEW f, Remembered(f)
        PROVE  Remembered(f)'
    <2>1. CASE f \in moved \/ f \in deleted
      BY <1>1, <2>1 DEF Remembered
    <2>2. CASE \E i \in DOMAIN queue : queue[i] = [file |-> f, op |-> "remove"]
      <3>1. PICK i \in DOMAIN queue : queue[i] = [file |-> f, op |-> "remove"]
        BY <2>2
      <3>2. CASE i = 1
        BY <1>1, <1>3, <3>1, <3>2 DEF Remembered
      <3>3. CASE i # 1
        BY <1>2, <3>1, <3>3 DEF Remembered
      <3> QED
        BY <3>2, <3>3
    <2> QED
      BY <1>4, <2>1, <2>2 DEF Remembered
  <1> QED
    BY <1>1, <1>4, FollowedByFile

\* A tick watches the files that are back and goes on for the others.
LEMMA FollowedTicked ==
    ASSUME TypeOK, WatchesFollowFiles, Tick
    PROVE  WatchesFollowFiles'
  <1> DEFINE back == {f \in deleted : disk[f] # None}
  <1>1. /\ UNCHANGED <<mode, files, queue, moved>> /\ Watching /\ pc = "select"
        /\ watched' = watched \cup back /\ deleted' = deleted \ back
        /\ ticker' = (deleted' # {})
    BY DEF Tick, Watching
  <1>2. ASSUME NEW f, Remembered(f), f \notin back
        PROVE  Remembered(f)'
    <2>1. CASE f \in deleted
      <3>1. f \in deleted' /\ ticker'
        BY <1>1, <1>2, <2>1
      <3> QED
        BY <3>1 DEF Remembered
    <2>2. CASE f \notin deleted
      BY <1>1, <1>2, <2>2 DEF Remembered
    <2> QED
      BY <2>1, <2>2
  <1> QED
    BY <1>1, <1>2, FollowedByFile

\* Every step keeps every file followed, one case per action.
LEMMA NextFollowed == TypeOK /\ WatchesFollowFiles /\ [Next]_vars => WatchesFollowFiles'
  <1> SUFFICES ASSUME TypeOK, WatchesFollowFiles, [Next]_vars PROVE WatchesFollowFiles'
    OBVIOUS
  <1> USE DEF watchVars, loopVars
  <1>1. CASE FindServer \/ Fallback \/ StartFails \/ Exit \/ ReloaderCrash
    BY <1>1, FollowedByFile
       DEF FindServer, Fallback, StartFails, Exit, ReloaderCrash, Watching, TypeOK
  <1>2. CASE Watch
    <2>1. Watching' => files' \ watched' = {}
      BY <1>2 DEF Watch, Watching
    <2> QED
      BY <2>1, FollowedByFile
  <1>3. CASE Preload \/ Poll \/ Signal \/ (ReloadFails /\ ~Exit)
    BY <1>3, FollowedKept DEF Preload, Poll, Signal, ReloadFails, Watching
  <1>4. CASE HandleEvent
    BY <1>4, FollowedHandled
  <1>5. CASE EndBatch
    <2>1. /\ UNCHANGED <<mode, files, watched, queue, moved, deleted>> /\ ticker'
          /\ Watching' => Watching
      BY <1>5 DEF EndBatch, Watching
    <2>2. \A f : Remembered(f) => Remembered(f)'
      BY <2>1 DEF Remembered
    <2> QED
      BY <2>1, <2>2, FollowedByFile
  <1>6. CASE Tick
    BY <1>6, FollowedTicked
  <1>7. CASE ServerReload \/ ServerStart \/ ServerCrash \/ UNCHANGED vars
    BY <1>7, FollowedKept DEF ServerReload, ServerStart, ServerCrash, vars, Watching
  <1>8. ASSUME NEW f \in Files, Overwrite(f) \/ Replace(f) \/ Remove(f) \/ MoveAway(f)
        PROVE  WatchesFollowFiles'
    BY <1>8, FollowedEdited
  <1> QED
    BY <1>1, <1>2, <1>3, <1>4, <1>5, <1>6, <1>7, <1>8 DEF Next, Reloader, Environment

\* No file the reloader follows is lost track of when its watch ends, whatever
\* the order of events, batches, ticks and changes - but a file moved away.
THEOREM FilesFollowed == Spec => []WatchesFollowFiles
  <1>1. Init => WatchesFollowFiles
    BY DEF Init, WatchesFollowFiles
  <1> QED
    BY <1>1, NextFollowed, TypeCorrect, PTL DEF Spec
=============================================================================
