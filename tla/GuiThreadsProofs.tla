-------------------------- MODULE GuiThreadsProofs --------------------------
(***************************************************************************)
(* Proofs about two modules in which threads of the GUI meet:              *)
(* ExecutorThreads, for every finite set of threads and every generation,  *)
(* and Sessions with GlobalSettings, for every set of files, images and    *)
(* ports and any number of edits, failed writes and crashes.               *)
(***************************************************************************)
EXTENDS ExecutorThreads, Sessions, FiniteSetTheorems, SequenceTheorems, TLAPS

-----------------------------------------------------------------------------
(* ExecutorThreads                                                         *)

Waiting == {t \in Threads : call[t] = "waiting"}

\* The lease flag is up exactly while a thread is inside.
LeaseInv ==
  /\ executor.active => \E t \in Threads : call[t] \in Holding
  /\ (\E t \in Threads : call[t] \in Holding) => executor.active

\* The inductive invariant.
IInv == TypeOK /\ LeaseInv /\ LeaseExclusive /\ WaitersAreReal /\ executor.generation = Own

\* Granting the lease keeps the type when the taker was counted.
LEMMA GrantedType ==
  ASSUME NEW G, NEW e \in ExecutorStates(G), e.waiters # 0
  PROVE  /\ Granted(e) \in ExecutorStates(G)
         /\ Granted(e).active /\ Granted(e).waiters = e.waiters - 1
         /\ Granted(e).valid = e.valid /\ Granted(e).generation = e.generation
<1>1. /\ Abandoned(e) \in ExecutorStates(G)
      /\ Abandoned(e).waiters = e.waiters - 1 /\ Abandoned(e).active = e.active
      /\ Abandoned(e).valid = e.valid /\ Abandoned(e).generation = e.generation
  BY DEF Abandoned, ExecutorStates
<1> QED BY <1>1 DEF Granted, ExecutorStates

\* A caller that need not wait is counted and uncounted in one step.
LEMMA GrantedAtOnce ==
  ASSUME NEW G, NEW e \in ExecutorStates(G)
  PROVE  Granted(Queued(e)) = MaintenanceGranted(e)
<1>1. /\ Queued(e) \in ExecutorStates(G)
      /\ Queued(e).waiters = e.waiters + 1 /\ Queued(e).active = e.active
      /\ Queued(e).valid = e.valid /\ Queued(e).generation = e.generation
  BY DEF Queued, ExecutorStates
<1>2. Abandoned(Queued(e)) = e
  BY <1>1 DEF Abandoned, ExecutorStates
<1> QED BY <1>2 DEF Granted, MaintenanceGranted

\* The waiting threads are finitely many.
LEMMA WaitingFinite == IsFiniteSet(Waiting)
<1>1. Waiting \subseteq Threads BY DEF Waiting
<1> QED BY <1>1, ThreadsAssumption, FS_Subset

\* Initially nobody holds or waits.
LEMMA InitIInv == Init => IInv
<1> SUFFICES ASSUME Init PROVE IInv OBVIOUS
<1>1. Waiting = {} BY DEF Init, Waiting
<1>2. Cardinality(Waiting) = 0 BY <1>1, FS_EmptySet
<1>3. TypeOK
  BY OwnAssumption DEF Init, TypeOK, ExecutorStates, NewExecutor, Returned
<1>4. LeaseInv /\ LeaseExclusive BY DEF Init, LeaseInv, LeaseExclusive, NewExecutor, Holding
<1>5. WaitersAreReal BY <1>2 DEF Init, WaitersAreReal, NewExecutor, Waiting
<1> QED BY <1>3, <1>4, <1>5 DEF IInv, Init, NewExecutor

\* A thread that starts to wait adds one to the waiting threads.
LEMMA OneMoreWaits ==
  ASSUME TypeOK, NEW t \in Threads, call[t] # "waiting",
         call' = [call EXCEPT ![t] = "waiting"]
  PROVE  Cardinality(Waiting') = Cardinality(Waiting) + 1
<1>1. Waiting' = Waiting \cup {t} BY DEF Waiting, TypeOK
<1>2. t \notin Waiting BY DEF Waiting
<1> QED BY <1>1, <1>2, WaitingFinite, FS_AddElement

\* A thread that stops waiting takes one away, and there was one.
LEMMA OneLessWaits ==
  ASSUME TypeOK, NEW t \in Threads, call[t] = "waiting", NEW c, c # "waiting",
         call' = [call EXCEPT ![t] = c]
  PROVE  /\ Cardinality(Waiting') = Cardinality(Waiting) - 1
         /\ Cardinality(Waiting) \in Nat \ {0}
<1>1. Waiting' = Waiting \ {t} BY DEF Waiting, TypeOK
<1>2. t \in Waiting BY DEF Waiting
<1>3. Cardinality(Waiting') = Cardinality(Waiting) - 1
  BY <1>1, <1>2, WaitingFinite, FS_RemoveElement
<1>4. Cardinality(Waiting) \in Nat BY WaitingFinite, FS_CardinalityType
<1>5. Cardinality(Waiting) # 0 BY <1>2, WaitingFinite, FS_EmptySet
<1> QED BY <1>3, <1>4, <1>5

\* A thread that neither starts nor stops waiting leaves the number alone.
LEMMA SameWait ==
  ASSUME TypeOK, NEW t \in Threads, call[t] # "waiting", NEW c, c # "waiting",
         call' = [call EXCEPT ![t] = c]
  PROVE  Waiting' = Waiting
BY DEF Waiting, TypeOK

\* Every call, wake-up, return and invalidation preserves the invariant.
LEMMA NextIInv == IInv /\ [Next]_vars => IInv'
<1> SUFFICES ASSUME IInv, [Next]_vars PROVE IInv' OBVIOUS
<1> USE DEF IInv
<1>w. executor.waiters = Cardinality(Waiting) BY DEF WaitersAreReal, Waiting
<1>0. SUFFICES ASSUME Next PROVE IInv'
  <2>1. CASE UNCHANGED vars
    BY <2>1 DEF vars, TypeOK, LeaseInv, LeaseExclusive, WaitersAreReal
  <2> QED BY <2>1
<1>1. ASSUME NEW t \in Threads, Wake(t) PROVE IInv'
  <2> USE <1>1
  <2>1. CASE ~executor.valid
    <3>1. /\ executor' = Abandoned(executor) /\ call' = [call EXCEPT ![t] = "closed"]
          /\ call[t] = "waiting"
      BY <2>1 DEF Wake
    <3>2. Cardinality(Waiting') = Cardinality(Waiting) - 1 /\ Cardinality(Waiting) \in Nat \ {0}
      BY <3>1, OneLessWaits
    <3>3. TypeOK' BY <1>w, <3>1, <3>2 DEF TypeOK, ExecutorStates, Abandoned, Returned
    <3>4. LeaseInv' /\ LeaseExclusive'
      BY <3>1 DEF LeaseInv, LeaseExclusive, Abandoned, Holding, TypeOK, ExecutorStates
    <3>5. WaitersAreReal'
      BY <1>w, <3>1, <3>2 DEF WaitersAreReal, Waiting, Abandoned, TypeOK, ExecutorStates
    <3> QED BY <3>1, <3>3, <3>4, <3>5 DEF Abandoned, TypeOK, ExecutorStates
  <2>2. CASE executor.valid
    <3>1. /\ executor' = Granted(executor) /\ call' = [call EXCEPT ![t] = "foreground"]
          /\ call[t] = "waiting" /\ ~executor.active
      BY <2>2 DEF Wake
    <3>2. Cardinality(Waiting') = Cardinality(Waiting) - 1 /\ Cardinality(Waiting) \in Nat \ {0}
      BY <3>1, OneLessWaits
    <3>3. TypeOK' BY <1>w, <3>1, <3>2, GrantedType DEF TypeOK, Holding
    <3>4. LeaseInv' /\ LeaseExclusive'
      BY <1>w, <3>1, <3>2, GrantedType DEF LeaseInv, LeaseExclusive, Holding, TypeOK
    <3>5. WaitersAreReal'
      BY <1>w, <3>1, <3>2, GrantedType DEF WaitersAreReal, Waiting, TypeOK
    <3> QED BY <1>w, <3>1, <3>2, <3>3, <3>4, <3>5, GrantedType DEF TypeOK
  <2> QED BY <2>1, <2>2
<1>2. ASSUME NEW t \in Threads, Return(t) PROVE IInv'
  <2>1. /\ executor' = Released(executor) /\ call' = [call EXCEPT ![t] = "done"]
        /\ call[t] \in Holding /\ call[t] # "waiting"
    BY <1>2 DEF Return, Holding
  <2>2. Waiting' = Waiting BY <2>1, SameWait
  <2>3. TypeOK' BY <2>1 DEF TypeOK, ExecutorStates, Released, Returned
  <2>4. LeaseInv' /\ LeaseExclusive'
    BY <2>1 DEF LeaseInv, LeaseExclusive, Released, Holding, TypeOK, ExecutorStates
  <2>5. WaitersAreReal'
    BY <1>w, <2>1, <2>2 DEF WaitersAreReal, Waiting, Released, TypeOK, ExecutorStates
  <2> QED BY <2>1, <2>3, <2>4, <2>5 DEF Released, TypeOK, ExecutorStates
<1>3. ASSUME NEW t \in Threads, NEW g \in Generations, CallForeground(t, g) PROVE IInv'
  <2> DEFINE refusal == Unavailable(executor, g)
  <2>0. call[t] # "waiting" /\ call[t] \notin Holding
    BY <1>3 DEF CallForeground, Returned, Holding
  <2>1. CASE refusal # "no"
    <3>1. executor' = executor /\ call' = [call EXCEPT ![t] = refusal]
      BY <1>3, <2>1 DEF CallForeground
    <3>2. refusal \in {"closed", "stale"} BY <2>1 DEF Unavailable
    <3>3. Waiting' = Waiting BY <2>0, <3>1, <3>2, SameWait
    <3>4. TypeOK' BY <3>1, <3>2 DEF TypeOK, Returned
    <3>5. LeaseInv' /\ LeaseExclusive'
      BY <2>0, <3>1, <3>2 DEF LeaseInv, LeaseExclusive, Holding, TypeOK
    <3>6. WaitersAreReal' BY <1>w, <3>1, <3>3 DEF WaitersAreReal, Waiting
    <3> QED BY <3>1, <3>4, <3>5, <3>6
  <2>2. CASE refusal = "no" /\ ~executor.active
    <3>1. executor' = Granted(Queued(executor)) /\ call' = [call EXCEPT ![t] = "foreground"]
      BY <1>3, <2>2 DEF CallForeground
    <3>2. executor' = MaintenanceGranted(executor)
      BY <3>1, GrantedAtOnce DEF TypeOK
    <3>3. Waiting' = Waiting BY <2>0, <3>1, SameWait
    <3>4. TypeOK' BY <3>1, <3>2 DEF TypeOK, ExecutorStates, MaintenanceGranted, Holding
    <3>5. LeaseInv' /\ LeaseExclusive'
      BY <2>2, <3>1, <3>2
      DEF LeaseInv, LeaseExclusive, MaintenanceGranted, Holding, TypeOK, ExecutorStates
    <3>6. WaitersAreReal'
      BY <1>w, <3>2, <3>3 DEF WaitersAreReal, Waiting, MaintenanceGranted, TypeOK, ExecutorStates
    <3> QED BY <3>2, <3>4, <3>5, <3>6 DEF MaintenanceGranted, TypeOK, ExecutorStates
  <2>3. CASE refusal = "no" /\ executor.active
    <3>1. executor' = Queued(executor) /\ call' = [call EXCEPT ![t] = "waiting"]
      BY <1>3, <2>3 DEF CallForeground
    <3>2. Cardinality(Waiting') = Cardinality(Waiting) + 1 BY <2>0, <3>1, OneMoreWaits
    <3>3. TypeOK' BY <3>1 DEF TypeOK, ExecutorStates, Queued
    <3>4. LeaseInv' /\ LeaseExclusive'
      BY <2>0, <3>1 DEF LeaseInv, LeaseExclusive, Queued, Holding, TypeOK, ExecutorStates
    <3>5. WaitersAreReal'
      BY <1>w, <3>1, <3>2 DEF WaitersAreReal, Waiting, Queued, TypeOK, ExecutorStates
    <3> QED BY <3>1, <3>3, <3>4, <3>5 DEF Queued, TypeOK, ExecutorStates
  <2> QED BY <2>1, <2>2, <2>3
<1>4. ASSUME NEW t \in Threads, NEW g \in Generations, CallMaintenance(t, g) PROVE IInv'
  <2> DEFINE status == MaintenanceStatus(executor, g)
  <2>0. call[t] # "waiting" /\ call[t] \notin Holding
    BY <1>4 DEF CallMaintenance, Returned, Holding
  <2>1. CASE status # "run"
    <3>1. executor' = executor /\ call' = [call EXCEPT ![t] = status]
      BY <1>4, <2>1 DEF CallMaintenance
    <3>2. status \in {"closed", "stale", "busy"}
      BY <2>1 DEF MaintenanceStatus, Unavailable
    <3>3. Waiting' = Waiting BY <2>0, <3>1, <3>2, SameWait
    <3>4. TypeOK' BY <3>1, <3>2 DEF TypeOK, Returned
    <3>5. LeaseInv' /\ LeaseExclusive'
      BY <2>0, <3>1, <3>2 DEF LeaseInv, LeaseExclusive, Holding, TypeOK
    <3>6. WaitersAreReal' BY <1>w, <3>1, <3>3 DEF WaitersAreReal, Waiting
    <3> QED BY <3>1, <3>4, <3>5, <3>6
  <2>2. CASE status = "run"
    <3>1. executor' = MaintenanceGranted(executor) /\ call' = [call EXCEPT ![t] = "maintenance"]
      BY <1>4, <2>2 DEF CallMaintenance
    <3>2. ~executor.active BY <2>2 DEF MaintenanceStatus, Unavailable
    <3>3. Waiting' = Waiting BY <2>0, <3>1, SameWait
    <3>4. TypeOK' BY <3>1 DEF TypeOK, ExecutorStates, MaintenanceGranted, Holding
    <3>5. LeaseInv' /\ LeaseExclusive'
      BY <3>1, <3>2
      DEF LeaseInv, LeaseExclusive, MaintenanceGranted, Holding, TypeOK, ExecutorStates
    <3>6. WaitersAreReal'
      BY <1>w, <3>1, <3>3 DEF WaitersAreReal, Waiting, MaintenanceGranted, TypeOK, ExecutorStates
    <3> QED BY <3>1, <3>4, <3>5, <3>6 DEF MaintenanceGranted, TypeOK, ExecutorStates
  <2> QED BY <2>1, <2>2
<1>5. ASSUME Invalidate PROVE IInv'
  BY <1>5 DEF Invalidate, Invalidated, TypeOK, ExecutorStates, LeaseInv, LeaseExclusive,
    WaitersAreReal
<1> QED BY <1>0, <1>1, <1>2, <1>3, <1>4, <1>5 DEF Next

\* The invariant holds in every state of every run of the threads.
THEOREM ExecutorInvariant == Spec => []IInv
<1>1. Spec => []IInv BY InitIInv, NextIInv, PTL DEF Spec
<1> QED BY <1>1

\* The executor's fields and the calls keep their types; in particular the
\* number of foreground waiters never goes below zero.
THEOREM ExecutorTypeCorrect == Spec => []TypeOK
<1>1. IInv => TypeOK BY DEF IInv
<1> QED BY <1>1, ExecutorInvariant, PTL

\* execute_foreground and try_execute_maintenance never run two actions on the
\* session at once, whatever the number of threads.
THEOREM LeaseIsExclusive == Spec => []LeaseExclusive
<1>1. IInv => LeaseExclusive BY DEF IInv
<1> QED BY <1>1, ExecutorInvariant, PTL

\* The executor counts exactly the threads that wait for the lease.
THEOREM WaitersCounted == Spec => []WaitersAreReal
<1>1. IInv => WaitersAreReal BY DEF IInv
<1> QED BY <1>1, ExecutorInvariant, PTL

\* try_execute_maintenance never overtakes a waiting execute_foreground.
THEOREM ForegroundGoesFirst == Spec => ForegroundFirst
<1> DEFINE A == \A t \in Threads : call[t] # "maintenance" /\ call'[t] = "maintenance"
                  => \A u \in Threads : call[u] # "waiting"
<1>1. ASSUME IInv, [Next]_vars PROVE [A]_vars
  <2> SUFFICES ASSUME Next, NEW t \in Threads, call[t] # "maintenance",
                      call'[t] = "maintenance", NEW u \in Threads, call[u] = "waiting"
               PROVE  FALSE
    BY <1>1
  <2> USE <1>1 DEF IInv
  <2>1. PICK s \in Threads, g \in Generations : CallMaintenance(s, g)
    BY Zenon DEF Next, Wake, Return, CallForeground, Invalidate, TypeOK, Unavailable
  <2>2. MaintenanceStatus(executor, g) = "run"
    BY <2>1 DEF CallMaintenance, MaintenanceStatus, Unavailable, TypeOK
  <2>3. executor.waiters = 0
    BY <2>2 DEF MaintenanceStatus, Unavailable, TypeOK, ExecutorStates
  <2>4. Cardinality(Waiting) = 0 BY <2>3 DEF WaitersAreReal, Waiting
  <2>5. Waiting = {} BY <2>4, WaitingFinite, FS_EmptySet
  <2> QED BY <2>5 DEF Waiting
<1>2. IInv /\ [Next]_vars => [A]_vars BY <1>1
<1> QED BY <1>2, ExecutorInvariant, PTL DEF Spec, ForegroundFirst

\* After invalidate() no new operation enters the session.
THEOREM InvalidIsFinal == Spec => NoEntryAfterInvalidate
<1> DEFINE A == ~executor.valid => \A t \in Threads : call'[t] \in Holding => call[t] \in Holding
<1>1. ASSUME IInv, [Next]_vars PROVE [A]_vars
  <2> SUFFICES ASSUME Next, ~executor.valid, NEW t \in Threads, call'[t] \in Holding
               PROVE  call[t] \in Holding
    BY <1>1
  <2> USE <1>1 DEF IInv
  <2>1. ASSUME NEW s \in Threads, Wake(s) PROVE call[t] \in Holding
    BY <2>1 DEF Wake, TypeOK, Holding
  <2>2. ASSUME NEW s \in Threads, Return(s) PROVE call[t] \in Holding
    BY <2>2 DEF Return, TypeOK, Holding
  <2>3. ASSUME NEW s \in Threads, NEW g \in Generations, CallForeground(s, g)
        PROVE call[t] \in Holding
    BY <2>3 DEF CallForeground, Unavailable, TypeOK, Holding
  <2>4. ASSUME NEW s \in Threads, NEW g \in Generations, CallMaintenance(s, g)
        PROVE call[t] \in Holding
    BY <2>4 DEF CallMaintenance, MaintenanceStatus, Unavailable, TypeOK, Holding
  <2> QED BY <2>1, <2>2, <2>3, <2>4 DEF Next, Invalidate
<1>2. IInv /\ [Next]_vars => [A]_vars BY <1>1
<1> QED BY <1>2, ExecutorInvariant, PTL DEF Spec, NoEntryAfterInvalidate

-----------------------------------------------------------------------------
(* Sessions                                                                *)

(***************************************************************************)
(* The types of the state, in full.                                        *)
(***************************************************************************)
Resources == [path : Paths, status : {"EMPTY", "PARSING", "READY", "ERROR"},
              parsed : Paths, revision : Nat]

SessionStates == [document : Documents, baseline : Documents,
                  path : Files \cup {None}, dirty : BOOLEAN]

TaskStates == [kind : Slots \cup {"service", "connect", "disconnect", "shutdown"},
               path : Paths, revision : Nat,
               at : {"submitted", "inside", "done"},
               result : {None, "ok", "failed", "fatal"}]

GuiPlaces == {"idle", "ask", "choose_open", "choose_save", "write", "cache",
              "proceed", "apply_program", "apply_ram", "apply_erase"}

GuiStates == [at : GuiPlaces,
              for : {None, "new", "open", "recent", "close", "save"},
              file : Files \cup {None}, to : Files \cup {None}]

ParseStates == [queue : Seq(Slots), ours : BOOLEAN, scheduled : BOOLEAN,
                generation : Nat, timers : SUBSET Nat]

SettingsStates == [file : SettingsFiles, baseline : SettingsDocuments,
                   candidate : SettingsDocuments, migrated : BOOLEAN,
                   tool : Tools, pinging : BOOLEAN]

StoredTypes ==
  /\ disk \in [Files -> Documents \cup {Absent, Corrupt}]
  /\ session \in SessionStates
  /\ recent \in Seq(Files)

WindowTypes ==
  /\ port \in Ports
  /\ resource \in [Slots -> Resources]
  /\ state \in {"DISCONNECTED", "CONNECTED", "ERROR"}
  /\ task = None \/ task \in TaskStates

LoopTypes ==
  /\ gui \in GuiStates
  /\ pending \subseteq Slots \cup {"service"}
  /\ discarded \in BOOLEAN /\ torn \in BOOLEAN
  /\ moves \in Nat /\ faults \in Nat

\* The queue holds each image once at most, and no timer is of a later session.
QueueBounded(p) ==
  /\ p \in ParseStates
  /\ Len(p.queue) <= 2 /\ p.timers \subseteq 0 .. p.generation

\* The recent list is a list of different files, and not too long.
RecentList(r) == r \in Seq(Files) /\ Len(r) <= MaxRecent /\ IsInjective(r)

(***************************************************************************)
(* The inductive invariant.                                                *)
(***************************************************************************)
SettingsInv ==
  /\ settings \in SettingsStates
  /\ settings.baseline = LoadedSettings(settings.file)
  /\ settings.tool = settings.baseline.tool
  /\ settings.pinging = settings.candidate.ping

\* The baseline is what the file of the session holds, and dirty is the
\* difference from it.
StoredInv ==
  /\ session.dirty <=> session.document # session.baseline
  /\ session.path # None => disk[session.path] = session.baseline
  /\ cache # Corrupt => recent = cache
  /\ RecentList(recent)

\* A slot holds the path of the session, and not an untouched selection, which
\* a worker would fill with the path of its own task.
Settled(s) == resource[s].path = session.document[s] /\ resource[s].revision >= 1

ApartInv ==
  /\ session.document.port \in {None, port}
  /\ ~torn /\ gui.at # "apply_program" => Settled("program")
  /\ ~torn /\ gui.at \notin {"apply_program", "apply_ram"} => Settled("ram")
  /\ ReadyIsOwn

\* Where the GUI thread is says what has become of unsaved work.
PlaceInv ==
  /\ gui.at \in {"write", "cache"} => gui.to \in Files
  /\ gui.at \in {"ask", "choose_save", "write", "cache", "proceed"} /\ gui.for = "recent"
       => gui.file \in Files
  /\ gui.at = "cache" => ~session.dirty
  /\ gui.at \in {"proceed", "choose_open"} /\ session.dirty => discarded
  /\ task # None /\ task.kind = "shutdown" =>
       gui.at = "idle" /\ (session.dirty => discarded)

Types == StoredTypes /\ WindowTypes /\ LoopTypes /\ QueueBounded(parses)

SessionsInv == Types /\ SettingsInv /\ StoredInv /\ ApartInv /\ PlaceInv

-----------------------------------------------------------------------------
(* The recent list                                                         *)

\* Without one entry, the list is shorter by it and the others keep their order.
LEMMA RemoveAtEntries ==
  ASSUME NEW S, NEW s \in Seq(S), NEW k \in DOMAIN s
  PROVE  /\ RemoveAt(s, k) \in Seq(S)
         /\ Len(RemoveAt(s, k)) = Len(s) - 1
         /\ \A j \in 1 .. Len(s) - 1 : RemoveAt(s, k)[j] = IF j < k THEN s[j] ELSE s[j + 1]
<1> DEFINE a == SubSeq(s, 1, k - 1)
           b == SubSeq(s, k + 1, Len(s))
<1>0. Len(s) \in Nat /\ DOMAIN s = 1 .. Len(s) /\ k \in 1 .. Len(s)
  BY LenProperties
<1>1. a \in Seq(S) /\ Len(a) = k - 1 /\ \A i \in 1 .. k - 1 : a[i] = s[i]
  BY <1>0
<1>2. b \in Seq(S) /\ Len(b) = Len(s) - k /\ \A i \in 1 .. Len(s) - k : b[i] = s[k + i]
  BY <1>0
<1> HIDE DEF a, b
<1>3. a \o b \in Seq(S) /\ Len(a \o b) = Len(a) + Len(b)
  BY <1>1, <1>2, ConcatProperties
<1>4. \A j \in 1 .. Len(a) + Len(b) : (a \o b)[j] = IF j <= Len(a) THEN a[j] ELSE b[j - Len(a)]
  BY <1>1, <1>2, ConcatProperties
<1>5. ASSUME NEW j \in 1 .. Len(s) - 1
      PROVE  (a \o b)[j] = IF j < k THEN s[j] ELSE s[j + 1]
  <2>1. CASE j < k
    BY <2>1, <1>0, <1>1, <1>2, <1>4
  <2>2. CASE ~(j < k)
    <3>1. j - (k - 1) \in 1 .. Len(s) - k /\ k + (j - (k - 1)) = j + 1
      BY <2>2, <1>0
    <3>2. (a \o b)[j] = b[j - (k - 1)]
      BY <2>2, <1>0, <1>1, <1>2, <1>4
    <3> QED
      BY <3>1, <3>2, <1>2, <2>2
  <2> QED
    BY <2>1, <2>2
<1>6. RemoveAt(s, k) = a \o b
  BY DEF RemoveAt, a, b
<1> DEFINE c == a \o b
<1>7. Len(c) = Len(s) - 1
  <2> HIDE DEF c
  <2>1. Len(c) = Len(a) + Len(b)
    BY <1>3 DEF c
  <2> QED
    BY <2>1, <1>0, <1>1, <1>2
<1> HIDE DEF c
<1>8. c \in Seq(S) /\ RemoveAt(s, k) = c
  BY <1>3, <1>6 DEF c
<1>9. \A j \in 1 .. Len(s) - 1 : c[j] = IF j < k THEN s[j] ELSE s[j + 1]
  BY <1>5 DEF c
<1> QED
  BY <1>7, <1>8, <1>9

LEMMA WithoutIsRecentList ==
  ASSUME NEW r, RecentList(r), NEW file \in Files
  PROVE  /\ RecentList(Without(r, file))
         /\ \A i \in DOMAIN Without(r, file) : Without(r, file)[i] # file
<1>0. /\ r \in Seq(Files) /\ Len(r) \in Nat /\ DOMAIN r = 1 .. Len(r) /\ Len(r) <= MaxRecent
      /\ \A i, j \in 1 .. Len(r) : r[i] = r[j] => i = j
  BY LenProperties DEF RecentList, IsInjective
<1>00. MaxRecent \in Nat
  BY SessionsAssumption
<1>1. CASE file \notin Range(r)
  BY <1>0, <1>1 DEF Without, RecentList, IsInjective, Range
<1>2. CASE file \in Range(r)
  <2> DEFINE k == CHOOSE i \in DOMAIN r : r[i] = file
             w == RemoveAt(r, k)
  <2>1. k \in DOMAIN r /\ r[k] = file
    BY <1>2 DEF Range
  <2> HIDE DEF k
  <2>2. /\ w \in Seq(Files) /\ Len(w) = Len(r) - 1
        /\ \A j \in 1 .. Len(r) - 1 : w[j] = IF j < k THEN r[j] ELSE r[j + 1]
    BY <2>1, <1>0, RemoveAtEntries
  <2>3. Without(r, file) = w
    BY <1>2 DEF Without, k
  <2> HIDE DEF w
  <2>4. DOMAIN w = 1 .. Len(r) - 1
    BY <2>2, LenProperties
  <2>5. \A i, j \in 1 .. Len(r) - 1 : w[i] = w[j] => i = j
    BY <2>1, <2>2, <1>0
  <2>6. \A j \in 1 .. Len(r) - 1 : w[j] # file
    BY <2>1, <2>2, <1>0
  <2> QED
    BY <2>2, <2>3, <2>4, <2>5, <2>6, <1>0, <1>00 DEF RecentList, IsInjective
<1> QED
  BY <1>1, <1>2

LEMMA WithRecentIsRecentList ==
  ASSUME NEW r, RecentList(r), NEW file \in Files
  PROVE  RecentList(WithRecent(r, file))
<1> DEFINE w == Without(r, file)
           all == <<file>> \o w
           n == IF Len(all) < MaxRecent THEN Len(all) ELSE MaxRecent
           cut == SubSeq(all, 1, n)
<1>0. MaxRecent \in Nat
  BY SessionsAssumption
<1>1. /\ w \in Seq(Files) /\ Len(w) \in Nat /\ DOMAIN w = 1 .. Len(w)
      /\ \A i, j \in 1 .. Len(w) : w[i] = w[j] => i = j
      /\ \A i \in 1 .. Len(w) : w[i] # file
  BY WithoutIsRecentList, LenProperties DEF RecentList, IsInjective
<1>6. WithRecent(r, file) = cut
  BY DEF WithRecent
<1> HIDE DEF w
<1>2. /\ all \in Seq(Files) /\ Len(all) = Len(w) + 1
      /\ \A i \in 1 .. Len(w) + 1 : all[i] = IF i = 1 THEN file ELSE w[i - 1]
  BY <1>1
<1> HIDE DEF all
<1>3. n \in 0 .. Len(all) /\ n <= MaxRecent
  BY <1>0, <1>1, <1>2
<1> HIDE DEF n
<1>4. cut \in Seq(Files) /\ Len(cut) = n /\ \A i \in 1 .. n : cut[i] = all[i]
  BY <1>2, <1>3, <1>1
<1> HIDE DEF cut
<1>5. \A i, j \in 1 .. n : cut[i] = cut[j] => i = j
  <2> SUFFICES ASSUME NEW i \in 1 .. n, NEW j \in 1 .. n, cut[i] = cut[j]
               PROVE  i = j
    OBVIOUS
  <2>1. all[i] = all[j] /\ i \in 1 .. Len(w) + 1 /\ j \in 1 .. Len(w) + 1
    BY <1>1, <1>2, <1>3, <1>4
  <2>2. CASE i = 1 /\ j = 1
    BY <2>2
  <2>3. CASE i = 1 /\ j # 1
    BY <2>1, <2>3, <1>1, <1>2
  <2>4. CASE i # 1 /\ j = 1
    BY <2>1, <2>4, <1>1, <1>2
  <2>5. CASE i # 1 /\ j # 1
    <3>1. i - 1 \in 1 .. Len(w) /\ j - 1 \in 1 .. Len(w) /\ w[i - 1] = w[j - 1]
      BY <2>1, <2>5, <1>1, <1>2
    <3> QED
      BY <3>1, <1>1
  <2> QED
    BY <2>2, <2>3, <2>4, <2>5
<1>7. DOMAIN cut = 1 .. n
  BY <1>4, LenProperties
<1> QED
  BY <1>3, <1>4, <1>5, <1>6, <1>7 DEF RecentList, IsInjective

-----------------------------------------------------------------------------
(* The parse queue                                                         *)

LEMMA ScheduledBounded ==
  ASSUME NEW p, QueueBounded(p), NEW idle
  PROVE  QueueBounded(Scheduled(p, idle))
<1> DEFINE q == [p EXCEPT !.scheduled = TRUE, !.timers = @ \cup {p.generation}]
<1>1. p \in ParseStates /\ Len(p.queue) <= 2 /\ p.timers \subseteq 0 .. p.generation
      /\ p.generation \in Nat
  BY DEF QueueBounded, ParseStates
<1>2. q \in ParseStates /\ q.queue = p.queue /\ q.generation = p.generation
      /\ q.timers = p.timers \cup {p.generation}
  BY <1>1 DEF ParseStates
<1>3. q.timers \subseteq 0 .. q.generation
  BY <1>1, <1>2
<1>4. QueueBounded(q)
  BY <1>1, <1>2, <1>3 DEF QueueBounded
<1> QED
  BY <1>4 DEF Scheduled

LEMMA CancelledBounded ==
  ASSUME NEW p, QueueBounded(p)
  PROVE  QueueBounded(Cancelled(p))
<1> DEFINE q == Cancelled(p)
<1>1. p \in ParseStates /\ p.timers \subseteq 0 .. p.generation /\ p.generation \in Nat
  BY DEF QueueBounded, ParseStates
<1>2. q \in ParseStates /\ q.queue = <<>> /\ q.generation = p.generation + 1
      /\ q.timers = p.timers
  <2>1. <<>> \in Seq(Slots) /\ p.generation + 1 \in Nat /\ p.timers \in SUBSET Nat
    BY <1>1 DEF ParseStates
  <2> QED
    BY <2>1 DEF ParseStates, Cancelled
<1> HIDE DEF q
<1>3. q.timers \subseteq 0 .. q.generation
  BY <1>1, <1>2
<1> QED
  BY <1>2, <1>3 DEF QueueBounded, q

LEMMA AfterTaskBounded ==
  ASSUME NEW p, QueueBounded(p), NEW idle
  PROVE  QueueBounded(QueueAfterTask(p, idle))
<1> DEFINE q == [p EXCEPT !.ours = FALSE]
<1>1. QueueBounded(q)
  BY DEF QueueBounded, ParseStates
<1> QED
  BY <1>1, ScheduledBounded DEF QueueAfterTask

LEMMA ImagesBounded ==
  ASSUME NEW document
  PROVE  ImagesOf(document) \in Seq(Slots) /\ Len(ImagesOf(document)) <= 2
<1>1. CASE document.program # None /\ document.ram # None
  BY <1>1 DEF ImagesOf, Slots
<1>2. CASE document.program # None /\ document.ram = None
  BY <1>2 DEF ImagesOf, Slots
<1>3. CASE document.program = None /\ document.ram # None
  BY <1>3 DEF ImagesOf, Slots
<1>4. CASE document.program = None /\ document.ram = None
  BY <1>4 DEF ImagesOf, Slots
<1> QED
  BY <1>1, <1>2, <1>3, <1>4

-----------------------------------------------------------------------------
(* Documents and selections                                                *)

LEMMA CapturedFields ==
  ASSUME NEW document \in Documents, NEW p \in Ports, NEW r \in [Slots -> Resources]
  PROVE  /\ Captured(document, p, r) \in Documents
         /\ Captured(document, p, r).port = p
         /\ Captured(document, p, r)["program"] = r["program"].path
         /\ Captured(document, p, r)["ram"] = r["ram"].path
BY DEF Captured, Documents, Resources, Slots

LEMMA ReplacedFields ==
  ASSUME NEW s \in SessionStates, NEW document \in Documents
  PROVE  /\ Replaced(s, document) \in SessionStates
         /\ Replaced(s, document).document = document
         /\ Replaced(s, document).baseline = s.baseline
         /\ Replaced(s, document).path = s.path
         /\ Replaced(s, document).dirty <=> document # s.baseline
BY DEF Replaced, SessionStates

LEMMA PathSetFields ==
  ASSUME NEW r \in [Slots -> Resources], NEW slot \in Slots, NEW path \in Paths
  PROVE  /\ PathSet(r, slot, path) \in [Slots -> Resources]
         /\ PathSet(r, slot, path)[slot].path = path
         /\ PathSet(r, slot, path)[slot].status = "EMPTY"
         /\ PathSet(r, slot, path)[slot].revision >= 1
         /\ \A s \in Slots \ {slot} : PathSet(r, slot, path)[s] = r[s]
BY DEF PathSet, Resources, Paths

\* A step that leaves what a part of the invariant is about leaves the part.
LEMMA StoredUnchanged ==
  ASSUME StoredTypes, StoredInv, UNCHANGED sessionVars
  PROVE  StoredTypes' /\ StoredInv'
BY DEF StoredTypes, StoredInv, sessionVars

LEMMA SettingsUnchanged ==
  ASSUME SettingsInv, UNCHANGED settings
  PROVE  SettingsInv'
BY DEF SettingsInv

LEMMA ParsesUnchanged ==
  ASSUME QueueBounded(parses), UNCHANGED parses
  PROVE  QueueBounded(parses')
BY DEF QueueBounded

-----------------------------------------------------------------------------
(* The parts of the invariant, action by action                            *)

LEMMA IdlePlace ==
  ASSUME NEW g, g = Idle
  PROVE  g \in GuiStates /\ g.at = "idle"
BY DEF Idle, GuiStates, GuiPlaces


LEMMA ReturnsToLoop ==
  ASSUME ReturnToLoop
  PROVE  gui' \in GuiStates /\ gui'.at = "idle" /\ discarded' \in BOOLEAN
<1>1. discarded' \in BOOLEAN
  BY Zenon DEF ReturnToLoop
<1>2. gui' = Idle
  BY DEF ReturnToLoop
<1> QED
  BY <1>1, <1>2, IdlePlace

LEMMA WriteKeeps ==
  ASSUME SessionsInv, Write
  PROVE  SessionsInv'
<1> USE DEF SessionsInv, Types
<1>0. PICK document : document = Captured(session.document, port, resource)
  OBVIOUS
<1>1. /\ document \in Documents /\ document.port = port
      /\ document["program"] = resource["program"].path /\ document["ram"] = resource["ram"].path
  BY <1>0, CapturedFields DEF StoredTypes, WindowTypes, SessionStates
<1>2. gui.at = "write" /\ gui.to \in Files /\ UNCHANGED <<settings, cache, recent, port, resource, state, task, parses, pending, torn, moves>>
  BY DEF Write, PlaceInv
<1>3. SettingsInv' /\ QueueBounded(parses)' /\ WindowTypes'
  BY <1>2, SettingsUnchanged, ParsesUnchanged DEF WindowTypes
<1>4. CASE /\ session' = SavedState(session, document, gui.to, TRUE)
           /\ disk' = [disk EXCEPT ![gui.to] = document]
           /\ gui' = [gui EXCEPT !.at = "cache"]
           /\ UNCHANGED <<discarded, faults>>
  <2>1. session' \in SessionStates /\ session'.document = document /\ session'.baseline = document
        /\ session'.path = gui.to /\ session'.dirty = FALSE
    BY <1>1, <1>2, <1>4 DEF SavedState, SessionStates
  <2>2. disk' \in [Files -> Documents \cup {Absent, Corrupt}] /\ disk'[gui.to] = document
    BY <1>1, <1>2, <1>4 DEF StoredTypes
  <2>3. gui' \in GuiStates /\ gui'.at = "cache" /\ gui'.to = gui.to /\ gui'.for = gui.for /\ gui'.file = gui.file
    BY <1>4 DEF LoopTypes, GuiStates, GuiPlaces
  <2>4. StoredTypes' /\ StoredInv'
    BY <1>2, <2>1, <2>2 DEF StoredTypes, StoredInv
  <2>5. LoopTypes'
    BY <1>2, <1>4, <2>3 DEF LoopTypes
  <2>6. ApartInv'
    BY <1>1, <1>2, <2>1, <2>3 DEF ApartInv, Settled, ReadyIsOwn
  <2>7. PlaceInv'
    BY <1>2, <1>4, <2>1, <2>3 DEF PlaceInv
  <2> QED
    BY <1>3, <2>4, <2>5, <2>6, <2>7
<1>5. CASE /\ session' = SavedState(session, document, gui.to, FALSE)
           /\ faults' = faults + 1
           /\ ReturnToLoop
           /\ UNCHANGED disk
  <2>1. /\ session' \in SessionStates /\ session'.document = document
        /\ session'.baseline = session.baseline /\ session'.path = session.path
        /\ session'.dirty <=> document # session.baseline
    BY <1>1, <1>2, <1>5, ReplacedFields DEF SavedState, StoredTypes
  <2>3. gui' \in GuiStates /\ gui'.at = "idle" /\ discarded' \in BOOLEAN
    BY <1>5, ReturnsToLoop
  <2>4. StoredTypes' /\ StoredInv'
    BY <1>2, <1>5, <2>1 DEF StoredTypes, StoredInv
  <2>5. LoopTypes'
    BY <1>2, <1>5, <2>3 DEF LoopTypes
  <2>6. ApartInv'
    BY <1>1, <1>2, <2>1, <2>3 DEF ApartInv, Settled, ReadyIsOwn
  <2>7. PlaceInv'
    BY <1>2, <1>5, <2>1, <2>3 DEF PlaceInv
  <2> QED
    BY <1>3, <2>4, <2>5, <2>6, <2>7
<1> QED
  BY <1>0, <1>4, <1>5 DEF Write

LEMMA WriteCacheKeeps ==
  ASSUME SessionsInv, WriteCache
  PROVE  SessionsInv'
<1> USE DEF SessionsInv, Types
<1>1. PICK written \in BOOLEAN :
        /\ CacheUpdated(WithRecent(recent, gui.to), written)
        /\ faults' = IF written THEN faults ELSE faults + 1
  BY DEF WriteCache
<1>2. /\ gui.at = "cache" /\ gui.to \in Files /\ ~session.dirty
      /\ UNCHANGED <<settings, disk, session, port, resource, state, task, parses, pending, discarded, torn, moves>>
  BY DEF WriteCache, PlaceInv
<1>3. SettingsInv' /\ QueueBounded(parses)' /\ WindowTypes'
  BY <1>2, SettingsUnchanged, ParsesUnchanged DEF WindowTypes
<1>4. PICK r : r = WithRecent(recent, gui.to)
  OBVIOUS
<1>5. RecentList(r)
  BY <1>2, <1>4, WithRecentIsRecentList DEF StoredInv
<1>6. (recent' = r /\ cache' = r) \/ (recent' = recent /\ cache' = cache)
  BY <1>1, <1>4 DEF CacheUpdated
<1>7. StoredTypes' /\ StoredInv'
  BY <1>2, <1>5, <1>6 DEF StoredTypes, StoredInv, RecentList
<1>8. /\ gui' \in GuiStates /\ gui'.at \in {"idle", "proceed"}
      /\ gui'.at = "proceed" => gui'.for = gui.for /\ gui'.file = gui.file
  BY DEF WriteCache, LoopTypes, GuiStates, GuiPlaces, Idle
<1>9. LoopTypes'
  BY <1>1, <1>2, <1>8 DEF LoopTypes
<1>10. ApartInv'
  BY <1>2, <1>8 DEF ApartInv, Settled, ReadyIsOwn
<1>11. PlaceInv'
  BY <1>2, <1>8 DEF PlaceInv
<1> QED
  BY <1>3, <1>7, <1>9, <1>10, <1>11

\* The steps that leave the session and the place of the GUI thread alone:
\* a selection that was touched keeps its path and its revision.
SelectionsKept ==
  /\ resource' \in [Slots -> Resources]
  /\ \A s \in Slots : resource[s].revision >= 1 =>
       resource'[s].path = resource[s].path /\ resource'[s].revision = resource[s].revision
  /\ ReadyIsOwn'

NoShutdownStarts ==
  task' # None /\ task'.kind = "shutdown" => task # None /\ task.kind = "shutdown"

LEMMA SelectionsUnchanged ==
  ASSUME WindowTypes, ApartInv, UNCHANGED resource
  PROVE  SelectionsKept
BY DEF WindowTypes, ApartInv, SelectionsKept, ReadyIsOwn

LEMMA BackgroundKeeps ==
  ASSUME SessionsInv, SelectionsKept, NoShutdownStarts,
         task' = None \/ task' \in TaskStates,
         state' \in {"DISCONNECTED", "CONNECTED", "ERROR"},
         pending' \subseteq Slots \cup {"service"}, QueueBounded(parses)',
         UNCHANGED <<settings, sessionVars, port, gui, discarded, torn, faults>>,
         moves' \in Nat
  PROVE  SessionsInv'
<1> USE DEF SessionsInv, Types
<1>1. StoredTypes' /\ StoredInv' /\ SettingsInv'
  BY StoredUnchanged, SettingsUnchanged
<1>2. WindowTypes'
  BY DEF WindowTypes, SelectionsKept
<1>3. LoopTypes'
  BY DEF LoopTypes
<1>4. session' = session
  BY DEF sessionVars
<1>5. Settled("program") => Settled("program")'
  BY <1>4 DEF Settled, SelectionsKept, Slots
<1>6. Settled("ram") => Settled("ram")'
  BY <1>4 DEF Settled, SelectionsKept, Slots
<1>7. ApartInv'
  BY <1>4, <1>5, <1>6 DEF ApartInv, SelectionsKept
<1>8. PlaceInv'
  BY <1>4 DEF PlaceInv, NoShutdownStarts
<1> QED
  BY <1>1, <1>2, <1>3, <1>7, <1>8

LEMMA RequestTypes ==
  ASSUME NEW kind, NEW path \in Paths, NEW revision \in Nat,
         kind \in Slots \cup {"service", "connect", "disconnect", "shutdown"},
         pending \subseteq Slots \cup {"service"},
         Request(kind, path, revision)
  PROVE  /\ task' \in TaskStates /\ task'.kind = kind
         /\ pending' \subseteq Slots \cup {"service"}
BY DEF Request, TaskStates

LEMMA SubmitKeeps ==
  ASSUME SessionsInv, NEW slot \in Slots, Submit(slot)
  PROVE  /\ SelectionsKept /\ NoShutdownStarts /\ task' \in TaskStates
         /\ pending' \subseteq Slots \cup {"service"}
<1>1. resource \in [Slots -> Resources] /\ resource[slot].path \in Paths /\ resource[slot].revision \in Nat
  BY DEF SessionsInv, Types, WindowTypes, Resources
<1>2. SelectionsKept
  <2>1. PICK q : q = [resource[slot] EXCEPT !.status = "PARSING", !.parsed = None]
    OBVIOUS
  <2>2. resource' = [resource EXCEPT ![slot] = q]
    BY <1>1, <2>1 DEF Submit
  <2>3. /\ q \in Resources /\ q.path = resource[slot].path
        /\ q.revision = resource[slot].revision /\ q.status = "PARSING"
    BY <1>1, <2>1 DEF Resources, Paths
  <2> QED
    BY <1>1, <2>2, <2>3 DEF SelectionsKept, ReadyIsOwn, SessionsInv, ApartInv
<1>3. slot \in Slots \cup {"service", "connect", "disconnect", "shutdown"} /\ slot # "shutdown"
  BY DEF Slots
<1>4. pending \subseteq Slots \cup {"service"}
  BY DEF SessionsInv, Types, LoopTypes
<1>5. Request(slot, resource[slot].path, resource[slot].revision)
  BY DEF Submit
<1>6. PICK path \in Paths, revision \in Nat : Request(slot, path, revision)
  BY <1>1, <1>5
<1>7. task' \in TaskStates /\ task'.kind = slot /\ pending' \subseteq Slots \cup {"service"}
  BY <1>3, <1>4, <1>6, RequestTypes
<1> QED
  BY <1>2, <1>3, <1>7 DEF NoShutdownStarts

LEMMA WorkerEntersKeeps ==
  ASSUME SessionsInv, WorkerEnters
  PROVE  SessionsInv'
<1>1. task # None /\ task \in TaskStates /\ task.at = "submitted" /\ resource \in [Slots -> Resources]
  BY DEF WorkerEnters, SessionsInv, Types, WindowTypes
<1>2. UNCHANGED <<settings, sessionVars, port, state, gui, parses, pending, discarded, torn, moves, faults>>
  BY DEF WorkerEnters
<1>3. CASE task.kind \in Slots
  <2>1. PICK r : r = Adopted(task, resource[task.kind])
    OBVIOUS
  <2>2. PICK starts \in BOOLEAN : starts = (IsCurrent(task, r) /\ (task.kind = "ram" => r.status = "PARSING"))
    OBVIOUS
  <2>3. r \in Resources /\ (r = resource[task.kind] \/ resource[task.kind].revision = 0)
        /\ (r.status = "READY" => r.parsed = r.path)
    BY <1>1, <1>3, <2>1 DEF Adopted, Resources, Paths, TaskStates, SessionsInv, ApartInv, ReadyIsOwn
  <2>4. /\ resource' = [resource EXCEPT ![task.kind] =
              IF starts THEN [r EXCEPT !.status = "PARSING", !.parsed = None] ELSE r]
        /\ task' = IF starts THEN [task EXCEPT !.at = "inside"]
                   ELSE [task EXCEPT !.at = "done", !.result = "failed"]
    BY <1>3, <2>1, <2>2 DEF WorkerEnters
  <2>5. PICK q : q = IF starts THEN [r EXCEPT !.status = "PARSING", !.parsed = None] ELSE r
    OBVIOUS
  <2>6. q \in Resources /\ q.path = r.path /\ q.revision = r.revision
        /\ (q.status = "READY" => q.parsed = q.path)
    BY <2>3, <2>5 DEF Resources, Paths
  <2>7. SelectionsKept
    <3>1. resource' = [resource EXCEPT ![task.kind] = q]
      BY <2>4, <2>5
    <3> QED
      BY <1>1, <1>3, <2>3, <2>6, <3>1 DEF SelectionsKept, ReadyIsOwn, SessionsInv, ApartInv
  <2>8. task' \in TaskStates /\ task'.kind = task.kind
    BY <1>1, <2>4 DEF TaskStates
  <2> QED
    BY <1>1, <1>2, <2>7, <2>8, BackgroundKeeps
       DEF NoShutdownStarts, SessionsInv, Types, WindowTypes, LoopTypes
<1>4. CASE task.kind \notin Slots
  <2>1. task' = [task EXCEPT !.at = "inside"] /\ UNCHANGED resource
    BY <1>4 DEF WorkerEnters
  <2>2. SelectionsKept
    BY <2>1, SelectionsUnchanged DEF SessionsInv, Types
  <2>8. task' \in TaskStates /\ task'.kind = task.kind
    BY <1>1, <2>1 DEF TaskStates
  <2> QED
    BY <1>1, <1>2, <2>2, <2>8, BackgroundKeeps
       DEF NoShutdownStarts, SessionsInv, Types, WindowTypes, LoopTypes
<1> QED
  BY <1>3, <1>4

LEMMA WorkerCollidesKeeps ==
  ASSUME SessionsInv, WorkerCollides
  PROVE  SessionsInv'
<1>1. task # None /\ task \in TaskStates
  BY DEF WorkerCollides, SessionsInv, Types, WindowTypes
<1>2. /\ task' = [task EXCEPT !.at = "done", !.result = "fatal"]
      /\ UNCHANGED <<settings, sessionVars, port, resource, state, gui, parses, pending, discarded, torn, moves, faults>>
  BY DEF WorkerCollides
<1>3. SelectionsKept
  BY <1>2, SelectionsUnchanged DEF SessionsInv, Types
<1>4. task' \in TaskStates /\ task'.kind = task.kind
  BY <1>1, <1>2 DEF TaskStates
<1> QED
  BY <1>1, <1>2, <1>3, <1>4, BackgroundKeeps
     DEF NoShutdownStarts, SessionsInv, Types, WindowTypes, LoopTypes

LEMMA WorkerEndsKeeps ==
  ASSUME SessionsInv, WorkerEnds
  PROVE  SessionsInv'
<1>1. task # None /\ task \in TaskStates /\ resource \in [Slots -> Resources]
  BY DEF WorkerEnds, SessionsInv, Types, WindowTypes
<1>2. UNCHANGED <<settings, sessionVars, port, state, gui, parses, pending, discarded, torn, moves, faults>>
  BY DEF WorkerEnds
<1>3. PICK result \in {"ok", "failed"} :
       /\ task' = [task EXCEPT !.at = "done", !.result = result]
       /\ IF task.kind \in Slots /\ IsCurrent(task, resource[task.kind])
          THEN resource' = [resource EXCEPT
                 ![task.kind].status = IF result = "ok" THEN "READY" ELSE "ERROR",
                 ![task.kind].parsed = IF result = "ok" THEN task.path ELSE None]
          ELSE UNCHANGED resource
  BY DEF WorkerEnds
<1>4. task' \in TaskStates /\ task'.kind = task.kind
  BY <1>1, <1>3 DEF TaskStates
<1>5. SelectionsKept
  <2>1. CASE task.kind \in Slots /\ IsCurrent(task, resource[task.kind])
    <3>0. PICK status, parsed : /\ status = IF result = "ok" THEN "READY" ELSE "ERROR"
                                /\ parsed = IF result = "ok" THEN task.path ELSE None
      OBVIOUS
    <3>1. PICK q : q = [resource[task.kind] EXCEPT !.status = status, !.parsed = parsed]
      OBVIOUS
    <3>2. resource' = [resource EXCEPT ![task.kind] = q]
      BY <1>1, <1>3, <2>1, <3>0, <3>1
    <3>4. /\ status \in {"READY", "ERROR"} /\ parsed \in Paths
          /\ status = "READY" => parsed = resource[task.kind].path
      BY <1>1, <2>1, <3>0 DEF Paths, TaskStates, IsCurrent
    <3>3. /\ q \in Resources /\ q.path = resource[task.kind].path
          /\ q.revision = resource[task.kind].revision /\ (q.status = "READY" => q.parsed = q.path)
      BY <1>1, <2>1, <3>1, <3>4 DEF Resources
    <3> QED
      BY <1>1, <2>1, <3>2, <3>3 DEF SelectionsKept, ReadyIsOwn, SessionsInv, ApartInv
  <2>2. CASE ~(task.kind \in Slots /\ IsCurrent(task, resource[task.kind]))
    BY <1>3, <2>2, SelectionsUnchanged DEF SessionsInv, Types
  <2> QED
    BY <2>1, <2>2
<1> QED
  BY <1>1, <1>2, <1>4, <1>5, BackgroundKeeps
     DEF NoShutdownStarts, SessionsInv, Types, WindowTypes, LoopTypes

LEMMA TaskFinishesKeeps ==
  ASSUME SessionsInv, TaskFinishes
  PROVE  SessionsInv'
<1>1. /\ task' = None
      /\ state' = StateAfter(task)
      /\ parses' = QueueAfterTask(parses, state' = "DISCONNECTED")
      /\ UNCHANGED <<settings, sessionVars, port, resource, gui, pending, discarded, torn, moves, faults>>
  BY DEF TaskFinishes
<1>2. SelectionsKept
  BY <1>1, SelectionsUnchanged DEF SessionsInv, Types
<1>3. QueueBounded(parses)'
  <2>1. PICK idle : parses' = QueueAfterTask(parses, idle)
    BY <1>1
  <2>2. QueueBounded(parses)
    BY DEF SessionsInv, Types
  <2> QED
    BY <2>1, <2>2, AfterTaskBounded
<1>4. state' \in {"DISCONNECTED", "CONNECTED", "ERROR"}
  BY <1>1 DEF StateAfter, SessionsInv, Types, WindowTypes
<1> QED
  BY <1>1, <1>2, <1>3, <1>4, BackgroundKeeps
     DEF NoShutdownStarts, SessionsInv, Types, LoopTypes

LEMMA StartNextParseKeeps ==
  ASSUME SessionsInv, NEW generation, StartNextParse(generation)
  PROVE  SessionsInv'
<1>0. /\ parses \in ParseStates /\ Len(parses.queue) <= 2
      /\ parses.timers \subseteq 0 .. parses.generation
      /\ pending \subseteq Slots \cup {"service"} /\ moves \in Nat
      /\ state \in {"DISCONNECTED", "CONNECTED", "ERROR"} /\ (task = None \/ task \in TaskStates)
  BY DEF SessionsInv, Types, WindowTypes, QueueBounded, LoopTypes
<1>1. UNCHANGED <<settings, sessionVars, port, state, gui, discarded, torn, moves, faults>>
  BY DEF StartNextParse
<1>2. PICK fired : fired = [parses EXCEPT !.timers = @ \ {generation}]
  OBVIOUS
<1>3. PICK p : p = [fired EXCEPT !.scheduled = FALSE]
  OBVIOUS
<1>4. PICK rest : rest = [p EXCEPT !.queue = Tail(@)]
  OBVIOUS
<1>5. PICK ours : ours = [rest EXCEPT !.ours = TRUE]
  OBVIOUS
<1>6. \/ parses' \in {fired, p} /\ UNCHANGED <<resource, task, pending>>
      \/ p.queue # <<>> /\ parses' = Scheduled(rest, TRUE) /\ UNCHANGED <<resource, task, pending>>
      \/ p.queue # <<>> /\ parses' = ours /\ Submit(Head(p.queue))
  BY <1>2, <1>3, <1>4, <1>5 DEF StartNextParse
<1>7. QueueBounded(fired) /\ fired.queue = parses.queue
  BY <1>0, <1>2 DEF QueueBounded, ParseStates
<1>8. QueueBounded(p) /\ p.queue \in Seq(Slots) /\ Len(p.queue) <= 2
  BY <1>7, <1>3 DEF QueueBounded, ParseStates
<1>9. ASSUME p.queue # <<>>
      PROVE  QueueBounded(rest) /\ Head(p.queue) \in Slots
  <2>1. PICK q \in Seq(Slots) : q = p.queue /\ q # <<>> /\ Len(q) <= 2
    BY <1>8, <1>9
  <2>2. Tail(q) \in Seq(Slots) /\ Len(Tail(q)) <= 2 /\ Head(q) \in Slots
    BY <2>1
  <2>3. PICK w \in Seq(Slots) : w = Tail(p.queue) /\ Len(w) <= 2
    BY <2>1, <2>2
  <2>4. rest = [p EXCEPT !.queue = w]
    BY <1>4, <2>3
  <2> QED
    BY <2>1, <2>2, <2>3, <2>4, <1>8 DEF QueueBounded, ParseStates
<1>10. CASE parses' \in {fired, p} /\ UNCHANGED <<resource, task, pending>>
  <2>1. QueueBounded(parses)'
    BY <1>7, <1>8, <1>10
  <2>2. SelectionsKept
    BY <1>10, SelectionsUnchanged DEF SessionsInv, Types
  <2> QED
    BY <1>0, <1>1, <1>10, <2>1, <2>2, BackgroundKeeps DEF NoShutdownStarts
<1>11. CASE p.queue # <<>> /\ parses' = Scheduled(rest, TRUE) /\ UNCHANGED <<resource, task, pending>>
  <2>1. QueueBounded(parses)'
    BY <1>9, <1>11, ScheduledBounded
  <2>2. SelectionsKept
    BY <1>11, SelectionsUnchanged DEF SessionsInv, Types
  <2> QED
    BY <1>0, <1>1, <1>11, <2>1, <2>2, BackgroundKeeps DEF NoShutdownStarts
<1>12. CASE p.queue # <<>> /\ parses' = ours /\ Submit(Head(p.queue))
  <2>1. QueueBounded(parses)'
    BY <1>5, <1>9, <1>12 DEF QueueBounded, ParseStates
  <2>2. PICK slot \in Slots : Submit(slot)
    BY <1>9, <1>12
  <2>3. SelectionsKept /\ NoShutdownStarts /\ task' \in TaskStates
        /\ pending' \subseteq Slots \cup {"service"}
    BY <2>2, SubmitKeeps
  <2> QED
    BY <1>0, <1>1, <2>1, <2>3, BackgroundKeeps
<1> QED
  BY <1>6, <1>10, <1>11, <1>12

LEMMA EditTimerFiresKeeps ==
  ASSUME SessionsInv, NEW slot \in Slots, EditTimerFires(slot)
  PROVE  SessionsInv'
<1>0. /\ pending \subseteq Slots \cup {"service"} /\ moves \in Nat
      /\ state \in {"DISCONNECTED", "CONNECTED", "ERROR"} /\ (task = None \/ task \in TaskStates)
  BY DEF SessionsInv, Types, WindowTypes, LoopTypes
<1>1. UNCHANGED <<settings, sessionVars, port, state, gui, parses, discarded, torn, moves, faults>>
  BY DEF EditTimerFires
<1>2. QueueBounded(parses)'
  BY <1>1, ParsesUnchanged DEF SessionsInv, Types
<1>3. CASE Submit(slot)
  BY <1>0, <1>1, <1>2, <1>3, SubmitKeeps, BackgroundKeeps
<1>4. CASE pending' = pending \ {slot} /\ UNCHANGED <<resource, task>>
  <2>2. SelectionsKept
    BY <1>4, SelectionsUnchanged DEF SessionsInv, Types
  <2> QED
    BY <1>0, <1>1, <1>2, <1>4, <2>2, BackgroundKeeps DEF NoShutdownStarts
<1> QED
  BY <1>3, <1>4 DEF EditTimerFires

LEMMA StartupPrepareKeeps ==
  ASSUME SessionsInv, StartupPrepare
  PROVE  SessionsInv'
<1>0. /\ pending \subseteq Slots \cup {"service"} /\ moves \in Nat
      /\ state \in {"DISCONNECTED", "CONNECTED", "ERROR"} /\ (task = None \/ task \in TaskStates)
  BY DEF SessionsInv, Types, WindowTypes, LoopTypes
<1>1. UNCHANGED <<settings, sessionVars, port, resource, state, gui, parses, discarded, torn, moves, faults>>
  BY DEF StartupPrepare
<1>2. QueueBounded(parses)' /\ SelectionsKept
  BY <1>1, ParsesUnchanged, SelectionsUnchanged DEF SessionsInv, Types
<1>3. CASE task = None
  <2>1. /\ task' = [kind |-> "service", path |-> None, revision |-> 0,
                    at |-> "submitted", result |-> None]
        /\ pending' = {}
    BY <1>3 DEF StartupPrepare
  <2>2. task' \in TaskStates /\ task'.kind = "service"
    BY <2>1 DEF TaskStates, Paths
  <2> QED
    BY <1>0, <1>1, <1>2, <2>1, <2>2, BackgroundKeeps DEF NoShutdownStarts
<1>4. CASE task # None
  <2>1. UNCHANGED task /\ pending' = pending \ {"service"}
    BY <1>4 DEF StartupPrepare
  <2> QED
    BY <1>0, <1>1, <1>2, <2>1, BackgroundKeeps DEF NoShutdownStarts
<1> QED
  BY <1>3, <1>4

LEMMA ConnectOrDisconnectKeeps ==
  ASSUME SessionsInv, ConnectOrDisconnect
  PROVE  SessionsInv'
<1>0. /\ pending \subseteq Slots \cup {"service"} /\ moves \in Nat
      /\ state \in {"DISCONNECTED", "CONNECTED", "ERROR"}
  BY DEF SessionsInv, Types, WindowTypes, LoopTypes
<1>1. /\ UNCHANGED <<settings, sessionVars, port, resource, state, gui, parses, discarded, torn, faults>>
      /\ moves' = moves + 1
  BY DEF ConnectOrDisconnect, UserActs
<1>2. QueueBounded(parses)' /\ SelectionsKept
  BY <1>1, ParsesUnchanged, SelectionsUnchanged DEF SessionsInv, Types
<1>3. PICK kind : kind \in {"connect", "disconnect"} /\ Request(kind, None, 0)
  BY DEF ConnectOrDisconnect
<1>4. None \in Paths /\ 0 \in Nat /\ kind \in Slots \cup {"service", "connect", "disconnect", "shutdown"}
  BY <1>3 DEF Paths
<1>5. task' \in TaskStates /\ task'.kind = kind /\ pending' \subseteq Slots \cup {"service"}
  BY <1>0, <1>3, <1>4, RequestTypes
<1>6. NoShutdownStarts
  BY <1>3, <1>5 DEF NoShutdownStarts
<1>7. moves' \in Nat
  BY <1>0, <1>1
<1> QED
  BY <1>0, <1>1, <1>2, <1>5, <1>6, <1>7, BackgroundKeeps

(* The start of the program                                                *)

LEMMA LoadedIsDocument ==
  ASSUME NEW file \in SettingsFiles
  PROVE  LoadedSettings(file) \in SettingsDocuments
<1>1. file.document \in SettingsDocuments /\ file.version \in {"absent", "corrupt", "legacy", "current"}
  BY DEF SettingsFiles
<1>2. DefaultSettings \in SettingsDocuments
  BY ToolsAssumption DEF DefaultSettings, SettingsDocuments
<1>3. [file.document EXCEPT !.ping = TRUE] \in SettingsDocuments
  BY <1>1 DEF SettingsDocuments
<1> QED
  BY <1>1, <1>2, <1>3 DEF LoadedSettings

LEMMA AppliedInv ==
  ASSUME NEW file \in SettingsFiles, settings' = Applied(file)
  PROVE  SettingsInv'
<1>1. PICK loaded \in SettingsDocuments : loaded = LoadedSettings(file)
  BY LoadedIsDocument
<1>2. PICK migrated \in BOOLEAN : migrated = (file.version = "legacy")
  OBVIOUS
<1>3. settings' = [file |-> file, baseline |-> loaded, candidate |-> loaded,
                   migrated |-> migrated, tool |-> loaded.tool, pinging |-> loaded.ping]
  BY <1>1, <1>2 DEF Applied
<1>4. loaded.tool \in Tools /\ loaded.ping \in BOOLEAN
  BY <1>1 DEF SettingsDocuments
<1>5. settings' \in SettingsStates
  BY <1>3, <1>4 DEF SettingsStates
<1> QED
  BY <1>1, <1>3, <1>5 DEF SettingsInv

LEMMA UntitledTypes ==
  /\ AnyPort \in Ports
  /\ StartResource \in Resources /\ StartResource.path = None
  /\ StartResource.status = "EMPTY" /\ StartResource.revision = 1
  /\ NoResource \in Resources /\ NoResource.status = "EMPTY" /\ NoResource.path = None
  /\ UntitledDocument \in Documents /\ UntitledDocument.port = None
  /\ UntitledDocument["program"] = None /\ UntitledDocument["ram"] = None
  /\ Untitled \in SessionStates /\ Untitled.document = UntitledDocument
  /\ Untitled.baseline = UntitledDocument /\ Untitled.path = None /\ ~Untitled.dirty
<1>1. AnyPort \in Ports
  BY SessionsAssumption DEF AnyPort
<1>2. /\ StartResource \in Resources /\ StartResource.path = None
      /\ StartResource.status = "EMPTY" /\ StartResource.revision = 1
  BY DEF StartResource, NoResource, Resources, Paths
<1>3. NoResource \in Resources /\ NoResource.status = "EMPTY" /\ NoResource.path = None
  BY DEF NoResource, Resources, Paths
<1>4. /\ UntitledDocument \in Documents /\ UntitledDocument.port = None
      /\ UntitledDocument["program"] = None /\ UntitledDocument["ram"] = None
  BY DEF UntitledDocument, Documents, Paths
<1>5. /\ Untitled \in SessionStates /\ Untitled.document = UntitledDocument
      /\ Untitled.baseline = UntitledDocument /\ Untitled.path = None /\ ~Untitled.dirty
  BY <1>4 DEF Untitled, SessionStates
<1> QED
  BY <1>1, <1>2, <1>3, <1>4, <1>5

LEMMA EmptyLists ==
  RecentList(<<>>) /\ QueueBounded(NoParses)
<1>1. MaxRecent \in Nat
  BY SessionsAssumption
<1>2. RecentList(<<>>)
  BY <1>1 DEF RecentList, IsInjective
<1>3. NoParses \in ParseStates
  BY DEF NoParses, ParseStates
<1>4. NoParses.queue = <<>> /\ NoParses.timers = {} /\ NoParses.generation = 0
  BY DEF NoParses
<1> QED
  BY <1>2, <1>3, <1>4 DEF QueueBounded

LEMMA RestartKeeps ==
  ASSUME SessionsInv, Restart, faults' \in Nat
  PROVE  SessionsInv'
<1> USE DEF SessionsInv, Types
<1>1. /\ settings' = Applied(settings.file)
      /\ session' = Untitled /\ recent' = LoadedCache(cache)
      /\ port' = AnyPort /\ resource' = [s \in Slots |-> StartResource]
      /\ state' = "DISCONNECTED" /\ task' = None
      /\ gui' = Idle /\ parses' = NoParses /\ pending' = {"service"}
      /\ UNCHANGED <<disk, cache, moves>>
  BY DEF Restart
<1>2. discarded' \in BOOLEAN /\ torn' \in BOOLEAN
  BY Zenon DEF Restart
<1>3. SettingsInv'
  BY <1>1, AppliedInv DEF SettingsInv, SettingsStates
<1>4. recent' = recent \/ recent' = <<>>
  BY <1>1 DEF LoadedCache, StoredInv
<1>5. RecentList(recent)' /\ (cache' # Corrupt => recent' = cache')
  BY <1>1, <1>4, EmptyLists DEF StoredInv, LoadedCache
<1>6. StoredTypes' /\ StoredInv'
  BY <1>1, <1>5, UntitledTypes DEF StoredTypes, StoredInv, RecentList
<1>7. WindowTypes'
  BY <1>1, UntitledTypes DEF WindowTypes
<1>8. QueueBounded(parses)'
  BY <1>1, EmptyLists
<1>9. gui' \in GuiStates /\ gui'.at = "idle"
  BY <1>1, IdlePlace
<1>10. LoopTypes'
  BY <1>1, <1>2, <1>9 DEF LoopTypes
<1>11. ApartInv'
  BY <1>1, UntitledTypes DEF ApartInv, Settled, ReadyIsOwn, Slots
<1>12. PlaceInv'
  BY <1>1, <1>9 DEF PlaceInv
<1> QED
  BY <1>3, <1>6, <1>7, <1>8, <1>10, <1>11, <1>12

LEMMA InitSessionsInv ==
  ASSUME SessionsInit
  PROVE  SessionsInv
<1> USE DEF SessionsInv, Types
<1>1. /\ session = Untitled /\ recent = LoadedCache(cache)
      /\ port = AnyPort /\ resource = [s \in Slots |-> StartResource]
      /\ state = "DISCONNECTED" /\ task = None
      /\ gui = Idle /\ parses = NoParses /\ pending = {"service"}
      /\ moves = 0 /\ faults = 0
  BY DEF SessionsInit
<1>2. discarded \in BOOLEAN /\ torn \in BOOLEAN
  BY Zenon DEF SessionsInit
<1>3. SettingsInv
  <2>1. PICK v \in {"absent", "corrupt", "legacy", "current"} :
          settings = Applied([version |-> v, document |-> DefaultSettings])
    BY DEF SessionsInit
  <2>2. PICK file : file = [version |-> v, document |-> DefaultSettings]
    OBVIOUS
  <2>3. file \in SettingsFiles
    BY <2>2, ToolsAssumption DEF SettingsFiles, SettingsDocuments, DefaultSettings
  <2>4. PICK loaded \in SettingsDocuments : loaded = LoadedSettings(file)
    BY <2>3, LoadedIsDocument
  <2>5. PICK migrated \in BOOLEAN : migrated = (file.version = "legacy")
    OBVIOUS
  <2>6. settings = [file |-> file, baseline |-> loaded, candidate |-> loaded,
                    migrated |-> migrated, tool |-> loaded.tool, pinging |-> loaded.ping]
    BY <2>1, <2>2, <2>4, <2>5 DEF Applied
  <2>7. loaded.tool \in Tools /\ loaded.ping \in BOOLEAN
    BY <2>4 DEF SettingsDocuments
  <2>8. settings \in SettingsStates
    BY <2>3, <2>6, <2>7 DEF SettingsStates
  <2> QED
    BY <2>4, <2>6, <2>8 DEF SettingsInv
<1>4. recent = <<>> /\ (cache # Corrupt => recent = cache)
  BY DEF SessionsInit, LoadedCache
<1>5. \A f \in Files : SomeDocument(f) \in Documents
  <2>1. PICK p \in Ports : p # AnyPort
    BY SessionsAssumption
  <2>2. (CHOOSE q \in Ports : q # AnyPort) \in Ports
    BY <2>1
  <2>3. (CHOOSE i \in Images : TRUE) \in Images
    BY SessionsAssumption
  <2> QED
    BY <2>2, <2>3 DEF SomeDocument, Documents, Paths
<1>6. disk \in [Files -> Documents \cup {Absent, Corrupt}]
  BY <1>5 DEF SessionsInit
<1>7. StoredTypes /\ StoredInv
  BY <1>1, <1>4, <1>6, UntitledTypes, EmptyLists DEF StoredTypes, StoredInv, RecentList
<1>8. WindowTypes
  BY <1>1, UntitledTypes DEF WindowTypes
<1>9. QueueBounded(parses)
  BY <1>1, EmptyLists
<1>10. gui \in GuiStates /\ gui.at = "idle"
  BY <1>1, IdlePlace
<1>11. LoopTypes
  BY <1>1, <1>2, <1>10 DEF LoopTypes
<1>12. ApartInv
  BY <1>1, UntitledTypes DEF ApartInv, Settled, ReadyIsOwn, Slots
<1>13. PlaceInv
  BY <1>1, <1>10 DEF PlaceInv
<1> QED
  BY <1>3, <1>7, <1>8, <1>9, <1>11, <1>12, <1>13

(* Editing                                                                 *)

\* The selection and the port after an edit, captured into the session.
LEMMA EditKeeps ==
  ASSUME SessionsInv, gui.at = "idle", ~TaskDialogOpen,
         port' \in Ports, resource' \in [Slots -> Resources], ReadyIsOwn',
         \A s \in Slots : resource[s].revision >= 1 => resource'[s].revision >= 1,
         SessionEdited(resource'), discarded' = FALSE,
         pending' \subseteq Slots \cup {"service"}, moves' \in Nat,
         UNCHANGED <<settings, disk, cache, recent, state, task, gui, parses, torn, faults>>
  PROVE  SessionsInv'
<1> USE DEF SessionsInv, Types
<1>0. PICK document : document = Captured(session.document, port', resource')
  OBVIOUS
<1>1. /\ document \in Documents /\ document.port = port'
      /\ document["program"] = resource'["program"].path /\ document["ram"] = resource'["ram"].path
  BY <1>0, CapturedFields DEF StoredTypes, SessionStates
<1>2. /\ session' \in SessionStates /\ session'.document = document
      /\ session'.baseline = session.baseline /\ session'.path = session.path
      /\ session'.dirty <=> document # session.baseline
  BY <1>0, <1>1, ReplacedFields DEF SessionEdited, StoredTypes
<1>3. SettingsInv' /\ QueueBounded(parses)'
  BY SettingsUnchanged, ParsesUnchanged
<1>4. StoredTypes' /\ StoredInv'
  BY <1>2 DEF StoredTypes, StoredInv
<1>5. WindowTypes'
  BY DEF WindowTypes
<1>6. discarded' \in BOOLEAN
  BY Zenon
<1>7. LoopTypes'
  BY <1>6 DEF LoopTypes
<1>8. ApartInv'
  BY <1>1, <1>2 DEF ApartInv, Settled, Slots
<1>9. PlaceInv'
  BY DEF PlaceInv, TaskDialogOpen
<1> QED
  BY <1>3, <1>4, <1>5, <1>7, <1>8, <1>9

LEMMA EditPathKeeps ==
  ASSUME SessionsInv, NEW slot \in Slots, NEW path \in Paths, EditPath(slot, path)
  PROVE  SessionsInv'
<1>1. /\ gui.at = "idle" /\ ~TaskDialogOpen /\ moves' = moves + 1 /\ port' = port
      /\ SessionEdited(resource') /\ discarded' = FALSE
      /\ pending' \subseteq pending \cup {slot}
      /\ UNCHANGED <<settings, disk, cache, recent, state, task, gui, parses, torn, faults>>
  BY DEF EditPath, UserActs
<1>2. resource' = PathSet(resource, slot, path)
  BY DEF EditPath
<1>3. /\ resource \in [Slots -> Resources] /\ port \in Ports /\ moves \in Nat
      /\ pending \subseteq Slots \cup {"service"} /\ ReadyIsOwn
  BY DEF SessionsInv, Types, WindowTypes, LoopTypes, ApartInv
<1>4. /\ resource' \in [Slots -> Resources] /\ resource'[slot].status = "EMPTY"
      /\ resource'[slot].revision >= 1
      /\ \A s \in Slots \ {slot} : resource'[s] = resource[s]
  BY <1>2, <1>3, PathSetFields
<1>5. ReadyIsOwn' /\ \A s \in Slots : resource[s].revision >= 1 => resource'[s].revision >= 1
  BY <1>3, <1>4 DEF ReadyIsOwn
<1>6. port' \in Ports /\ moves' \in Nat /\ pending' \subseteq Slots \cup {"service"}
  BY <1>1, <1>3
<1> QED
  BY <1>1, <1>4, <1>5, <1>6, EditKeeps

LEMMA EditPortKeeps ==
  ASSUME SessionsInv, NEW p \in Ports, EditPort(p)
  PROVE  SessionsInv'
<1>1. /\ gui.at = "idle" /\ ~TaskDialogOpen /\ moves' = moves + 1 /\ port' = p
      /\ resource' = resource /\ SessionEdited(resource') /\ discarded' = FALSE
      /\ UNCHANGED <<settings, disk, cache, recent, state, task, gui, parses, pending, torn, faults>>
  BY DEF EditPort, UserActs
<1>2. /\ resource \in [Slots -> Resources] /\ moves \in Nat
      /\ pending \subseteq Slots \cup {"service"} /\ ReadyIsOwn
  BY DEF SessionsInv, Types, WindowTypes, LoopTypes, ApartInv
<1>3. ReadyIsOwn' /\ \A s \in Slots : resource[s].revision >= 1 => resource'[s].revision >= 1
  BY <1>1, <1>2 DEF ReadyIsOwn
<1>4. port' \in Ports /\ moves' \in Nat /\ pending' \subseteq Slots \cup {"service"}
      /\ resource' \in [Slots -> Resources]
  BY <1>1, <1>2
<1> QED
  BY <1>1, <1>3, <1>4, EditKeeps

(* The dialogs                                                             *)

\* A step of the GUI thread that touches nothing but where it is and the user's word.
LEMMA DialogKeeps ==
  ASSUME SessionsInv, gui' \in GuiStates, discarded' \in BOOLEAN, moves' \in Nat, PlaceInv',
         gui.at \notin {"apply_program", "apply_ram", "apply_erase"},
         UNCHANGED <<settings, sessionVars, port, resource, state, task, parses, pending, torn, faults>>
  PROVE  SessionsInv'
<1> USE DEF SessionsInv, Types
<1>1. StoredTypes' /\ StoredInv' /\ SettingsInv' /\ QueueBounded(parses)'
  BY StoredUnchanged, SettingsUnchanged, ParsesUnchanged
<1>2. session' = session
  BY DEF sessionVars
<1>3. WindowTypes'
  BY DEF WindowTypes
<1>4. LoopTypes'
  BY DEF LoopTypes
<1>5. ApartInv'
  BY <1>2 DEF ApartInv, Settled, ReadyIsOwn
<1> QED
  BY <1>1, <1>3, <1>4, <1>5

LEMMA SwitchRefusedKeeps ==
  ASSUME SessionsInv, SwitchRefused,
         gui.at \notin {"apply_program", "apply_ram", "apply_erase", "idle"}
  PROVE  SessionsInv'
<1>1. UNCHANGED <<settings, sessionVars, port, resource, state, task, parses, pending, torn, moves, faults>>
  BY DEF SwitchRefused
<1>2. gui' \in GuiStates /\ gui'.at = "idle" /\ discarded' \in BOOLEAN
  BY ReturnsToLoop DEF SwitchRefused
<1>3. session' = session /\ task' = task /\ moves \in Nat
  BY <1>1 DEF sessionVars, SessionsInv, Types, LoopTypes
<1>4. PlaceInv'
  BY <1>2, <1>3 DEF PlaceInv, SessionsInv
<1> QED
  BY <1>1, <1>2, <1>3, <1>4, DialogKeeps

LEMMA LeaveKeeps ==
  ASSUME SessionsInv, Leave
  PROVE  SessionsInv'
<1>1. /\ gui.at = "idle" /\ ~TaskDialogOpen /\ moves' = moves + 1 /\ discarded' = FALSE
      /\ UNCHANGED <<settings, sessionVars, port, resource, state, task, parses, pending, torn, faults>>
  BY DEF Leave, UserActs
<1>2. session' = session /\ task' = task /\ moves \in Nat /\ recent \in Seq(Files)
  BY <1>1 DEF sessionVars, SessionsInv, Types, LoopTypes, StoredTypes
<1>3. discarded' \in BOOLEAN
  BY <1>1, Zenon
<1>4. PICK for, file :
        /\ for \in {"new", "open", "recent", "close"} /\ file \in Files \cup {None}
        /\ for = "recent" => file \in Files
        /\ Begin(for, file)
  <2>1. CASE \E i \in DOMAIN recent : Begin("recent", recent[i])
    <3>1. PICK i \in DOMAIN recent : Begin("recent", recent[i])
      BY <2>1
    <3>2. recent[i] \in Files
      BY <1>2, <3>1, ElementOfSeq, LenProperties
    <3> QED
      BY <3>1, <3>2
  <2>2. CASE Begin("new", None) \/ Begin("open", None) \/ Begin("close", None)
    BY <2>2
  <2> QED
    BY <2>1, <2>2 DEF Leave
<1>5. /\ gui' \in GuiStates /\ gui'.for = for /\ gui'.file = file
      /\ gui'.at = IF session.dirty THEN "ask" ELSE "proceed"
  BY <1>4 DEF Begin, Idle, GuiStates, GuiPlaces
<1>6. PlaceInv'
  BY <1>1, <1>2, <1>4, <1>5 DEF PlaceInv, TaskDialogOpen
<1>7. moves' \in Nat
  BY <1>1, <1>2
<1> QED
  BY <1>1, <1>3, <1>5, <1>6, <1>7, DialogKeeps

LEMMA SaveFromPlace ==
  ASSUME NEW g \in GuiStates, session.path \in Files \cup {None}
  PROVE  /\ SaveFrom(g) \in GuiStates
         /\ SaveFrom(g).for = g.for /\ SaveFrom(g).file = g.file
         /\ SaveFrom(g).at \in {"choose_save", "write"}
         /\ SaveFrom(g).at = "write" => SaveFrom(g).to \in Files
BY DEF SaveFrom, GuiStates, GuiPlaces

LEMMA AnswerKeeps ==
  ASSUME SessionsInv, Answer
  PROVE  SessionsInv'
<1>1. /\ gui.at = "ask"
      /\ UNCHANGED <<settings, sessionVars, port, resource, state, task, parses, pending, torn, moves, faults>>
  BY DEF Answer
<1>2. /\ session' = session /\ task' = task /\ moves \in Nat /\ gui \in GuiStates
      /\ session.path \in Files \cup {None}
  BY <1>1 DEF sessionVars, SessionsInv, Types, LoopTypes, StoredTypes, SessionStates
<1>3. discarded' \in BOOLEAN
  BY Zenon DEF Answer
<1>4. ~(task # None /\ task.kind = "shutdown") /\ (gui.for = "recent" => gui.file \in Files)
  BY <1>1 DEF SessionsInv, PlaceInv
<1>5. CASE gui' = Idle
  <2>1. gui' \in GuiStates /\ gui'.at = "idle"
    BY <1>5, IdlePlace
  <2>2. PlaceInv'
    BY <1>2, <1>4, <2>1 DEF PlaceInv
  <2> QED
    BY <1>1, <1>2, <1>3, <2>1, <2>2, DialogKeeps
<1>6. CASE gui' = [gui EXCEPT !.at = "proceed"] /\ discarded' = TRUE
  <2>1. gui' \in GuiStates /\ gui'.at = "proceed" /\ gui'.for = gui.for /\ gui'.file = gui.file
    BY <1>2, <1>6 DEF GuiStates, GuiPlaces
  <2>2. discarded'
    BY <1>6, Zenon
  <2>3. PlaceInv'
    BY <1>2, <1>4, <2>1, <2>2 DEF PlaceInv
  <2> QED
    BY <1>1, <1>2, <1>3, <2>1, <2>3, DialogKeeps
<1>7. CASE gui' = SaveFrom(gui)
  <2>1. /\ gui' \in GuiStates /\ gui'.for = gui.for /\ gui'.file = gui.file
        /\ gui'.at \in {"choose_save", "write"} /\ (gui'.at = "write" => gui'.to \in Files)
    BY <1>2, <1>7, SaveFromPlace
  <2>2. PlaceInv'
    BY <1>2, <1>4, <2>1 DEF PlaceInv
  <2> QED
    BY <1>1, <1>2, <1>3, <2>1, <2>2, DialogKeeps
<1> QED
  BY <1>5, <1>6, <1>7 DEF Answer, RefusedSave

LEMMA SaveKeeps ==
  ASSUME SessionsInv, Save
  PROVE  SessionsInv'
<1>1. /\ gui.at = "idle" /\ ~TaskDialogOpen /\ moves' = moves + 1
      /\ UNCHANGED <<settings, sessionVars, port, resource, state, task, parses, pending, discarded, torn, faults>>
  BY DEF Save, UserActs
<1>2. /\ session' = session /\ task' = task /\ moves \in Nat /\ discarded \in BOOLEAN
      /\ session.path \in Files \cup {None}
  BY <1>1 DEF sessionVars, SessionsInv, Types, LoopTypes, StoredTypes, SessionStates
<1>3. ~(task # None /\ task.kind = "shutdown")
  BY <1>1 DEF TaskDialogOpen
<1>4. PICK g : g = [Idle EXCEPT !.for = "save"]
  OBVIOUS
<1>5. g \in GuiStates /\ g.for = "save"
  BY <1>4 DEF Idle, GuiStates, GuiPlaces
<1>6. gui' = SaveFrom(g) \/ gui' = [Idle EXCEPT !.at = "choose_save", !.for = "save"]
  BY <1>4 DEF Save
<1>7. /\ gui' \in GuiStates /\ gui'.for = "save"
      /\ gui'.at \in {"choose_save", "write"} /\ (gui'.at = "write" => gui'.to \in Files)
  <2>1. CASE gui' = SaveFrom(g)
    BY <1>2, <1>5, <2>1, SaveFromPlace
  <2>2. CASE gui' = [Idle EXCEPT !.at = "choose_save", !.for = "save"]
    BY <2>2 DEF Idle, GuiStates, GuiPlaces
  <2> QED
    BY <1>6, <2>1, <2>2
<1>8. PlaceInv'
  BY <1>2, <1>3, <1>7 DEF PlaceInv
<1>9. moves' \in Nat /\ discarded' \in BOOLEAN
  BY <1>1, <1>2
<1> QED
  BY <1>1, <1>7, <1>8, <1>9, DialogKeeps

LEMMA ChooseSaveKeeps ==
  ASSUME SessionsInv, ChooseSave
  PROVE  SessionsInv'
<1>1. /\ gui.at = "choose_save"
      /\ UNCHANGED <<settings, sessionVars, port, resource, state, task, parses, pending, torn, moves, faults>>
  BY DEF ChooseSave
<1>2. /\ session' = session /\ task' = task /\ moves \in Nat /\ discarded \in BOOLEAN /\ gui \in GuiStates
  BY <1>1 DEF sessionVars, SessionsInv, Types, LoopTypes
<1>3. ~(task # None /\ task.kind = "shutdown") /\ (gui.for = "recent" => gui.file \in Files)
  BY <1>1 DEF SessionsInv, PlaceInv
<1>4. CASE ReturnToLoop
  <2>1. gui' \in GuiStates /\ gui'.at = "idle" /\ discarded' \in BOOLEAN
    BY <1>4, ReturnsToLoop
  <2>2. PlaceInv'
    BY <1>2, <1>3, <2>1 DEF PlaceInv
  <2> QED
    BY <1>1, <1>2, <2>1, <2>2, DialogKeeps
<1>5. CASE \E file \in Files : gui' = [gui EXCEPT !.at = "write", !.to = file] /\ UNCHANGED discarded
  <2>1. /\ gui' \in GuiStates /\ gui'.at = "write" /\ gui'.to \in Files
        /\ gui'.for = gui.for /\ gui'.file = gui.file /\ discarded' = discarded
    BY <1>2, <1>5 DEF GuiStates, GuiPlaces
  <2>2. PlaceInv'
    BY <1>2, <1>3, <2>1 DEF PlaceInv
  <2> QED
    BY <1>1, <1>2, <2>1, <2>2, DialogKeeps
<1> QED
  BY <1>4, <1>5 DEF ChooseSave

LEMMA RemoveRecentKeeps ==
  ASSUME SessionsInv, RemoveRecent
  PROVE  SessionsInv'
<1> USE DEF SessionsInv, Types
<1>1. PICK i \in DOMAIN recent, written \in BOOLEAN :
        /\ CacheUpdated(Without(recent, recent[i]), written)
        /\ faults' = IF written THEN faults ELSE faults + 1
  BY DEF RemoveRecent
<1>2. /\ moves' = moves + 1
      /\ UNCHANGED <<settings, disk, session, port, resource, state, task, gui, parses, pending, discarded, torn>>
  BY DEF RemoveRecent, UserActs
<1>3. SettingsInv' /\ QueueBounded(parses)' /\ WindowTypes'
  BY <1>2, SettingsUnchanged, ParsesUnchanged DEF WindowTypes
<1>4. PICK file : file = recent[i]
  OBVIOUS
<1>5. file \in Files
  BY <1>1, <1>4, ElementOfSeq, LenProperties DEF StoredTypes
<1>6. PICK r : r = Without(recent, file)
  OBVIOUS
<1>7. RecentList(r)
  BY <1>5, <1>6, WithoutIsRecentList DEF StoredInv
<1>8. (recent' = r /\ cache' = r) \/ (recent' = recent /\ cache' = cache)
  BY <1>1, <1>4, <1>6 DEF CacheUpdated
<1>9. StoredTypes' /\ StoredInv'
  BY <1>2, <1>7, <1>8 DEF StoredTypes, StoredInv, RecentList
<1>10. LoopTypes'
  BY <1>1, <1>2 DEF LoopTypes
<1>11. ApartInv'
  BY <1>2 DEF ApartInv, Settled, ReadyIsOwn
<1>12. PlaceInv'
  BY <1>2 DEF PlaceInv
<1> QED
  BY <1>3, <1>9, <1>10, <1>11, <1>12

(* Switching and closing                                                   *)

LEMMA FinishSwitchKeeps ==
  ASSUME SessionsInv, NEW document \in Documents, NEW file \in Files \cup {None},
         FinishSwitch(document, file), gui.at \in {"proceed", "choose_open"},
         file # None => disk[file] = document
  PROVE  SessionsInv'
<1> USE DEF SessionsInv, Types
<1>1. /\ resource' = [s \in Slots |-> NoResource]
      /\ parses' = Cancelled(parses)
      /\ session' = [document |-> document, baseline |-> document, path |-> file, dirty |-> FALSE]
      /\ port' = IF document.port = None THEN port ELSE document.port
      /\ gui' = [Idle EXCEPT !.at = "apply_program"]
      /\ UNCHANGED <<settings, disk, cache, recent, state, task, pending, moves, faults>>
  BY DEF FinishSwitch
<1>2. discarded' \in BOOLEAN /\ torn' \in BOOLEAN
  BY Zenon DEF FinishSwitch
<1>3. /\ session' \in SessionStates /\ session'.document = document /\ session'.baseline = document
      /\ session'.path = file /\ ~session'.dirty
  BY <1>1 DEF SessionStates
<1>4. SettingsInv' /\ QueueBounded(parses)'
  BY <1>1, SettingsUnchanged, CancelledBounded
<1>5. StoredTypes' /\ StoredInv'
  BY <1>1, <1>3 DEF StoredTypes, StoredInv
<1>6. port' \in Ports /\ document.port \in {None, port'}
  BY <1>1 DEF Documents, WindowTypes
<1>7. WindowTypes'
  BY <1>1, <1>6, UntitledTypes DEF WindowTypes
<1>8. gui' \in GuiStates /\ gui'.at = "apply_program"
  BY <1>1 DEF Idle, GuiStates, GuiPlaces
<1>9. LoopTypes'
  BY <1>1, <1>2, <1>8 DEF LoopTypes
<1>10. ReadyIsOwn'
  BY <1>1, UntitledTypes DEF ReadyIsOwn
<1>11. ApartInv'
  BY <1>3, <1>6, <1>8, <1>10 DEF ApartInv
<1>12. PlaceInv'
  BY <1>1, <1>3, <1>8 DEF PlaceInv
<1> QED
  BY <1>4, <1>5, <1>7, <1>9, <1>11, <1>12

LEMMA OpenPathKeeps ==
  ASSUME SessionsInv, NEW file \in Files, OpenPath(file), gui.at \in {"proceed", "choose_open"}
  PROVE  SessionsInv'
<1>1. CASE SwitchRefused
  BY <1>1, SwitchRefusedKeeps
<1>2. CASE disk[file] \in Documents /\ FinishSwitch(disk[file], file)
  <2>1. PICK document \in Documents : document = disk[file]
    BY <1>2
  <2>2. FinishSwitch(document, file)
    BY <1>2, <2>1
  <2> QED
    BY <2>1, <2>2, FinishSwitchKeeps
<1> QED
  BY <1>1, <1>2 DEF OpenPath

LEMMA ChooseOpenKeeps ==
  ASSUME SessionsInv, ChooseOpen
  PROVE  SessionsInv'
<1>1. gui.at = "choose_open" /\ ((\E file \in Files : OpenPath(file)) \/ SwitchRefused)
  BY DEF ChooseOpen
<1> QED
  BY <1>1, OpenPathKeeps, SwitchRefusedKeeps

LEMMA CloseWindowKeeps ==
  ASSUME SessionsInv, CloseWindow, gui.at = "proceed"
  PROVE  SessionsInv'
<1>1. CASE SwitchRefused
  BY <1>1, SwitchRefusedKeeps
<1>2. CASE Restart /\ UNCHANGED faults
  <2>1. faults' \in Nat
    BY <1>2 DEF SessionsInv, Types, LoopTypes
  <2> QED
    BY <1>2, <2>1, RestartKeeps
<1>3. CASE /\ Request("shutdown", None, 0)
           /\ parses' = Cancelled(parses)
           /\ gui' = Idle
           /\ UNCHANGED <<settings, sessionVars, port, resource, state, discarded, torn, moves, faults>>
  <2> USE DEF SessionsInv, Types
  <2>1. None \in Paths /\ 0 \in Nat /\ pending \subseteq Slots \cup {"service"}
        /\ "shutdown" \in Slots \cup {"service", "connect", "disconnect", "shutdown"}
    BY DEF Paths, LoopTypes
  <2>2. task' \in TaskStates /\ task'.kind = "shutdown" /\ pending' \subseteq Slots \cup {"service"}
    BY <1>3, <2>1, RequestTypes
  <2>3. StoredTypes' /\ StoredInv' /\ SettingsInv' /\ QueueBounded(parses)'
    BY <1>3, StoredUnchanged, SettingsUnchanged, CancelledBounded
  <2>4. gui' \in GuiStates /\ gui'.at = "idle" /\ session' = session
    BY <1>3, IdlePlace DEF sessionVars
  <2>5. WindowTypes'
    BY <1>3, <2>2 DEF WindowTypes
  <2>6. LoopTypes'
    BY <1>3, <2>2, <2>4 DEF LoopTypes
  <2>7. ApartInv'
    BY <1>3, <2>4 DEF ApartInv, Settled, ReadyIsOwn
  <2>8. PlaceInv'
    BY <1>3, <2>4 DEF PlaceInv
  <2> QED
    BY <2>3, <2>5, <2>6, <2>7, <2>8
<1> QED
  BY <1>1, <1>2, <1>3 DEF CloseWindow

LEMMA ProceedKeeps ==
  ASSUME SessionsInv, Proceed
  PROVE  SessionsInv'
<1>1. gui.at = "proceed"
  BY DEF Proceed
<1>2. CASE FinishSwitch(UntitledDocument, None)
  BY <1>1, <1>2, UntitledTypes, FinishSwitchKeeps
<1>3. CASE SwitchRefused
  BY <1>1, <1>3, SwitchRefusedKeeps
<1>4. CASE /\ gui' = [gui EXCEPT !.at = "choose_open"]
           /\ UNCHANGED <<settings, sessionVars, port, resource, state, task, parses, pending,
                          discarded, torn, moves, faults>>
  <2>1. session' = session /\ moves \in Nat /\ discarded \in BOOLEAN /\ gui \in GuiStates
    BY <1>4 DEF sessionVars, SessionsInv, Types, LoopTypes
  <2>2. gui' \in GuiStates /\ gui'.at = "choose_open"
    BY <1>4, <2>1 DEF GuiStates, GuiPlaces
  <2>3. PlaceInv'
    BY <1>1, <1>4, <2>1, <2>2 DEF PlaceInv, SessionsInv
  <2> QED
    BY <1>1, <1>4, <2>1, <2>2, <2>3, DialogKeeps
<1>5. CASE gui.for = "recent" /\ OpenPath(gui.file)
  <2>1. gui.file \in Files
    BY <1>1, <1>5 DEF SessionsInv, PlaceInv
  <2> QED
    BY <1>1, <1>5, <2>1, OpenPathKeeps
<1>6. CASE CloseWindow
  BY <1>1, <1>6, CloseWindowKeeps
<1> QED
  BY <1>2, <1>3, <1>4, <1>5, <1>6 DEF Proceed

LEMMA ApplyProgramKeeps ==
  ASSUME SessionsInv, ApplyProgram
  PROVE  SessionsInv'
<1> USE DEF SessionsInv, Types
<1>1. /\ gui.at = "apply_program" /\ pending' = pending \ {"program"}
      /\ UNCHANGED <<settings, sessionVars, port, state, task, parses, discarded, moves, faults>>
  BY DEF ApplyProgram
<1>2. StoredTypes' /\ StoredInv' /\ SettingsInv' /\ QueueBounded(parses)' /\ session' = session
  BY <1>1, StoredUnchanged, SettingsUnchanged, ParsesUnchanged DEF sessionVars
<1>3. CASE LockHeld
  <2>1. torn' = TRUE /\ gui' = Idle /\ UNCHANGED resource
    BY <1>3 DEF ApplyProgram
  <2>2. torn' \in BOOLEAN /\ torn'
    BY <2>1, Zenon
  <2>3. gui' \in GuiStates /\ gui'.at = "idle"
    BY <2>1, IdlePlace
  <2>4. WindowTypes'
    BY <1>1, <2>1 DEF WindowTypes
  <2>5. LoopTypes'
    BY <1>1, <2>2, <2>3 DEF LoopTypes
  <2>6. ApartInv'
    BY <1>1, <1>2, <2>1, <2>2 DEF ApartInv, ReadyIsOwn
  <2>7. PlaceInv'
    BY <1>1, <1>2, <2>3 DEF PlaceInv
  <2> QED
    BY <1>2, <2>4, <2>5, <2>6, <2>7
<1>4. CASE ~LockHeld
  <2>0. PICK path \in Paths : path = session.document["program"]
    BY DEF StoredTypes, SessionStates, Documents
  <2>1. /\ resource' = PathSet(resource, "program", path)
        /\ gui' = [gui EXCEPT !.at = "apply_ram"] /\ UNCHANGED torn
    BY <1>4, <2>0 DEF ApplyProgram
  <2>2. /\ resource' \in [Slots -> Resources] /\ resource'["program"].path = path
        /\ resource'["program"].status = "EMPTY" /\ resource'["program"].revision >= 1
        /\ resource'["ram"] = resource["ram"]
    BY <2>1, PathSetFields DEF WindowTypes, Slots
  <2>3. gui' \in GuiStates /\ gui'.at = "apply_ram"
    BY <2>1 DEF LoopTypes, GuiStates, GuiPlaces
  <2>4. WindowTypes'
    BY <1>1, <2>2 DEF WindowTypes
  <2>5. LoopTypes'
    BY <1>1, <2>1, <2>3 DEF LoopTypes
  <2>6. ApartInv'
    BY <1>1, <1>2, <2>0, <2>2, <2>3 DEF ApartInv, ReadyIsOwn, Settled, Slots
  <2>7. PlaceInv'
    BY <1>1, <1>2, <2>3 DEF PlaceInv
  <2> QED
    BY <1>2, <2>4, <2>5, <2>6, <2>7
<1> QED
  BY <1>3, <1>4

LEMMA ApplyRamKeeps ==
  ASSUME SessionsInv, ApplyRam
  PROVE  SessionsInv'
<1> USE DEF SessionsInv, Types
<1>1. /\ gui.at = "apply_ram" /\ pending' = pending \ {"ram"}
      /\ gui' = [gui EXCEPT !.at = "apply_erase"]
      /\ UNCHANGED <<settings, sessionVars, port, state, task, parses, discarded, moves, faults>>
  BY DEF ApplyRam
<1>2. StoredTypes' /\ StoredInv' /\ SettingsInv' /\ QueueBounded(parses)' /\ session' = session
  BY <1>1, StoredUnchanged, SettingsUnchanged, ParsesUnchanged DEF sessionVars
<1>3. gui' \in GuiStates /\ gui'.at = "apply_erase"
  BY <1>1 DEF LoopTypes, GuiStates, GuiPlaces
<1>4. PlaceInv'
  BY <1>1, <1>2, <1>3 DEF PlaceInv
<1>5. CASE LockHeld
  <2>1. torn' = TRUE /\ UNCHANGED resource
    BY <1>5 DEF ApplyRam
  <2>2. torn' \in BOOLEAN /\ torn'
    BY <2>1, Zenon
  <2>4. WindowTypes'
    BY <1>1, <2>1 DEF WindowTypes
  <2>5. LoopTypes'
    BY <1>1, <1>3, <2>2 DEF LoopTypes
  <2>6. ApartInv'
    BY <1>1, <1>2, <2>1, <2>2 DEF ApartInv, ReadyIsOwn
  <2> QED
    BY <1>2, <1>4, <2>4, <2>5, <2>6
<1>6. CASE ~LockHeld
  <2>0. PICK path \in Paths : path = session.document["ram"]
    BY DEF StoredTypes, SessionStates, Documents
  <2>1. resource' = PathSet(resource, "ram", path) /\ UNCHANGED torn
    BY <1>6, <2>0 DEF ApplyRam
  <2>2. /\ resource' \in [Slots -> Resources] /\ resource'["ram"].path = path
        /\ resource'["ram"].status = "EMPTY" /\ resource'["ram"].revision >= 1
        /\ resource'["program"] = resource["program"]
    BY <2>1, PathSetFields DEF WindowTypes, Slots
  <2>4. WindowTypes'
    BY <1>1, <2>2 DEF WindowTypes
  <2>5. LoopTypes'
    BY <1>1, <1>3, <2>1 DEF LoopTypes
  <2>6. ApartInv'
    BY <1>1, <1>2, <1>3, <2>0, <2>1, <2>2 DEF ApartInv, ReadyIsOwn, Settled, Slots
  <2> QED
    BY <1>2, <1>4, <2>4, <2>5, <2>6
<1> QED
  BY <1>5, <1>6

LEMMA ApplyEraseKeeps ==
  ASSUME SessionsInv, ApplyErase
  PROVE  SessionsInv'
<1> USE DEF SessionsInv, Types
<1>1. /\ gui.at = "apply_erase" /\ gui' = Idle
      /\ UNCHANGED <<settings, sessionVars, port, resource, state, task, pending, discarded, moves, faults>>
  BY DEF ApplyErase
<1>2. StoredTypes' /\ StoredInv' /\ SettingsInv' /\ session' = session
  BY <1>1, StoredUnchanged, SettingsUnchanged DEF sessionVars
<1>3. gui' \in GuiStates /\ gui'.at = "idle"
  BY <1>1, IdlePlace
<1>4. PlaceInv'
  BY <1>1, <1>2, <1>3 DEF PlaceInv
<1>5. WindowTypes'
  BY <1>1 DEF WindowTypes
<1>6. torn' \in BOOLEAN /\ (torn => torn') /\ QueueBounded(parses)'
  <2>1. CASE LockHeld
    <3>1. torn' = TRUE /\ UNCHANGED parses
      BY <2>1 DEF ApplyErase
    <3>2. torn' \in BOOLEAN /\ torn'
      BY <3>1, Zenon
    <3> QED
      BY <3>1, <3>2, ParsesUnchanged
  <2>2. CASE ~LockHeld
    <3>1. PICK images : images = ImagesOf(session.document)
      OBVIOUS
    <3>2. PICK queued : queued = [parses EXCEPT !.queue = images]
      OBVIOUS
    <3>3. images \in Seq(Slots) /\ Len(images) <= 2
      BY <3>1, ImagesBounded
    <3>4. QueueBounded(queued)
      BY <3>2, <3>3 DEF QueueBounded, ParseStates
    <3>5. parses' = Scheduled(queued, ParseIdle) /\ UNCHANGED torn
      BY <2>2, <3>1, <3>2 DEF ApplyErase
    <3>6. QueueBounded(parses')
      BY <3>4, <3>5, ScheduledBounded
    <3> QED
      BY <3>5, <3>6 DEF LoopTypes
  <2> QED
    BY <2>1, <2>2
<1>7. LoopTypes'
  BY <1>1, <1>3, <1>6 DEF LoopTypes
<1>8. ApartInv'
  BY <1>1, <1>2, <1>3, <1>6 DEF ApartInv, ReadyIsOwn, Settled
<1> QED
  BY <1>2, <1>4, <1>5, <1>6, <1>7, <1>8

LEMMA SettingsPageKeeps ==
  ASSUME SessionsInv, SettingsPage
  PROVE  SessionsInv'
<1> USE DEF SessionsInv, Types
<1>1. /\ moves' = moves + 1 /\ faults' \in {faults, faults + 1}
      /\ UNCHANGED <<sessionVars, port, resource, state, task, gui, parses, pending, discarded, torn>>
  BY DEF SettingsPage, UserActs
<1>2. StoredTypes' /\ StoredInv' /\ QueueBounded(parses)' /\ session' = session
  BY <1>1, StoredUnchanged, ParsesUnchanged DEF sessionVars
<1>3. WindowTypes'
  BY <1>1 DEF WindowTypes
<1>4. LoopTypes'
  BY <1>1 DEF LoopTypes
<1>5. ApartInv'
  BY <1>1, <1>2 DEF ApartInv, ReadyIsOwn, Settled
<1>6. PlaceInv'
  BY <1>1, <1>2 DEF PlaceInv
<1>7. SettingsInv'
  <2>1. CASE EditSettings
    <3>1. PICK document \in SettingsDocuments :
            settings' = [settings EXCEPT !.candidate = document, !.pinging = document.ping]
      BY <2>1 DEF EditSettings
    <3>2. document.ping \in BOOLEAN
      BY <3>1 DEF SettingsDocuments
    <3> QED
      BY <3>1, <3>2 DEF SettingsInv, SettingsStates
  <2>2. CASE ReloadSettings
    BY <2>2, AppliedInv DEF ReloadSettings, SettingsInv, SettingsStates
  <2>3. CASE SaveSettings(FALSE)
    BY <2>3, SettingsUnchanged DEF SaveSettings, SavedSettings
  <2>4. CASE SaveSettings(TRUE)
    <3>1. PICK candidate \in SettingsDocuments : candidate = settings.candidate
      BY DEF SettingsInv, SettingsStates
    <3>2. PICK file : file = [version |-> "current", document |-> candidate]
      OBVIOUS
    <3>3. settings' = [settings EXCEPT !.file = file, !.baseline = candidate,
                                       !.migrated = FALSE, !.tool = candidate.tool]
      BY <2>4, <3>1, <3>2 DEF SaveSettings, SavedSettings
    <3>4. file \in SettingsFiles /\ LoadedSettings(file) = candidate
      BY <3>1, <3>2 DEF SettingsFiles, LoadedSettings
    <3>5. candidate.tool \in Tools
      BY <3>1 DEF SettingsDocuments
    <3>6. /\ settings' \in SettingsStates /\ settings'.file = file
          /\ settings'.baseline = candidate /\ settings'.candidate = candidate
          /\ settings'.tool = candidate.tool /\ settings'.pinging = settings.pinging
      BY <3>1, <3>3, <3>4, <3>5 DEF SettingsInv, SettingsStates
    <3> QED
      BY <3>1, <3>4, <3>6 DEF SettingsInv
  <2> QED
    BY <2>1, <2>2, <2>3, <2>4 DEF SettingsPage
<1> QED
  BY <1>2, <1>3, <1>4, <1>5, <1>6, <1>7

-----------------------------------------------------------------------------
(* The theorems                                                            *)

LEMMA NextSessionsInv ==
  ASSUME SessionsInv, [SessionsNext]_guiVars
  PROVE  SessionsInv'
<1>1. CASE UNCHANGED guiVars
  <2> USE DEF SessionsInv, Types
  <2>1. UNCHANGED <<settings, sessionVars, port, resource, state, task, gui, parses,
                    pending, discarded, torn, moves, faults>>
    BY <1>1 DEF guiVars
  <2>2. SelectionsKept
    BY <2>1, SelectionsUnchanged
  <2>3. QueueBounded(parses)'
    BY <2>1, ParsesUnchanged
  <2> QED
    BY <2>1, <2>2, <2>3, BackgroundKeeps DEF NoShutdownStarts, WindowTypes, LoopTypes
<1>2. CASE GuiSteps
  BY <1>2, WriteKeeps, WriteCacheKeeps, ProceedKeeps, ApplyProgramKeeps, ApplyRamKeeps,
     ApplyEraseKeeps DEF GuiSteps
<1>3. CASE WorkerEnters \/ WorkerCollides \/ WorkerEnds \/ TaskFinishes
  BY <1>3, WorkerEntersKeeps, WorkerCollidesKeeps, WorkerEndsKeeps, TaskFinishesKeeps
<1>4. CASE ShutdownFinishes
  <2>1. Restart /\ faults' \in Nat
    BY <1>4 DEF ShutdownFinishes, SessionsInv, Types, LoopTypes
  <2> QED
    BY <2>1, RestartKeeps
<1>5. CASE Crash
  <2>1. Restart /\ faults' \in Nat
    BY <1>5 DEF Crash, SessionsInv, Types, LoopTypes
  <2> QED
    BY <2>1, RestartKeeps
<1>6. CASE \/ \E g \in parses.timers : StartNextParse(g)
           \/ \E s \in Slots : EditTimerFires(s)
           \/ StartupPrepare \/ ConnectOrDisconnect
  BY <1>6, StartNextParseKeeps, EditTimerFiresKeeps, StartupPrepareKeeps, ConnectOrDisconnectKeeps
<1>7. CASE \/ \E s \in Slots, path \in Paths : EditPath(s, path)
           \/ \E p \in Ports : EditPort(p)
  BY <1>7, EditPathKeeps, EditPortKeeps
<1>8. CASE Leave \/ Answer \/ Save \/ ChooseSave \/ ChooseOpen \/ RemoveRecent \/ SettingsPage
  BY <1>8, LeaveKeeps, AnswerKeeps, SaveKeeps, ChooseSaveKeeps, ChooseOpenKeeps,
     RemoveRecentKeeps, SettingsPageKeeps
<1> QED
  BY <1>1, <1>2, <1>3, <1>4, <1>5, <1>6, <1>7, <1>8 DEF SessionsNext

\* The invariant the other theorems rest on: what is in memory, what is on disk,
\* the place of the GUI thread and the paths in the backend fit together.
THEOREM SessionsInvariant == SessionsSpec => []SessionsInv
BY InitSessionsInv, NextSessionsInv, PTL DEF SessionsSpec

LEMMA InvFilesAgree ==
  ASSUME SessionsInv
  PROVE  FilesAgree
<1> USE DEF SessionsInv, Types
<1>1. SessionsTypeOK
  <2>1. settings.file \in SettingsFiles /\ {settings.baseline, settings.candidate} \subseteq SettingsDocuments
    BY DEF SettingsInv, SettingsStates
  <2>2. /\ \A f \in Files : disk[f] \in Documents \cup {Absent, Corrupt}
        /\ session.document \in Documents /\ session.path \in Files \cup {None}
    BY DEF StoredTypes, SessionStates
  <2>3. Len(recent) <= MaxRecent /\ IsInjective(recent)
    BY DEF StoredInv, RecentList
  <2>4. \A s \in Slots : resource[s].path \in Paths
    BY DEF WindowTypes, Resources
  <2>5. state \in {"DISCONNECTED", "CONNECTED", "ERROR"}
        /\ (task = None \/ task.at \in {"submitted", "inside", "done"})
    BY DEF WindowTypes, TaskStates
  <2>6. Len(parses.queue) <= 2 /\ parses.timers \subseteq 0 .. parses.generation
    BY DEF QueueBounded
  <2>7. pending \subseteq Slots \cup {"service"}
    BY DEF LoopTypes
  <2> QED
    BY <2>1, <2>2, <2>3, <2>4, <2>5, <2>6, <2>7 DEF SessionsTypeOK
<1>2. CleanIsOnDisk
  BY DEF CleanIsOnDisk, StoredInv
<1>3. RecentIsStored
  BY DEF RecentIsStored, StoredInv
<1>4. SettingsInEffect
  BY DEF SettingsInEffect, SettingsInv, SettingsDirty
<1> QED
  BY <1>1, <1>2, <1>3, <1>4 DEF FilesAgree

\* What is shown as stored is on disk, whichever write failed and wherever the
\* program died: the session (_save_to, _atomic_write), the list of recent
\* sessions (with_recent_session) and the settings (save, reload).
THEOREM FilesAlwaysAgree == SessionsSpec => []FilesAgree
BY SessionsInvariant, InvFilesAgree, PTL

LEMMA InvSessionsStayApart ==
  ASSUME SessionsInv
  PROVE  SessionsStayApart
BY DEF SessionsInv, ApartInv, Settled, SessionsStayApart, SessionsDoNotMix, Slots

\* Nothing of one session enters another, tasks that were started for the last
\* one included, unless a worker broke into the switch (_finish_switch,
\* _begin_program_image_parse).
THEOREM SessionsAlwaysStayApart == SessionsSpec => []SessionsStayApart
BY SessionsInvariant, InvSessionsStayApart, PTL

\* A step that replaces the document of a dirty session is a user's edit, a
\* save, a crash, or comes after the user's word.
WorkStep ==
  session.dirty /\ session'.document # session.document /\ gui.at # "write" /\ moves' = moves
    => discarded \/ faults' > faults

LEMMA StepKeepsWork ==
  ASSUME SessionsInv, [SessionsNext]_guiVars
  PROVE  WorkStep
<1>1. CASE UNCHANGED session
  BY <1>1 DEF WorkStep
<1>2. CASE gui.at = "write" \/ gui.at \in {"proceed", "choose_open"}
  BY <1>2 DEF WorkStep, SessionsInv, PlaceInv
<1>3. CASE moves' = moves + 1
  BY <1>3 DEF WorkStep, SessionsInv, Types, LoopTypes
<1>4. CASE ShutdownFinishes
  BY <1>4 DEF ShutdownFinishes, WorkStep, SessionsInv, PlaceInv
<1>5. CASE Crash
  BY <1>5 DEF Crash, WorkStep, SessionsInv, Types, LoopTypes
<1>6. CASE UNCHANGED guiVars
  BY <1>1, <1>6 DEF guiVars, sessionVars
<1>7. CASE Write \/ Proceed \/ ChooseOpen
  BY <1>2, <1>7 DEF Write, Proceed, ChooseOpen
<1>8. CASE WriteCache \/ ApplyProgram \/ ApplyRam \/ ApplyErase
  BY <1>1, <1>8 DEF WriteCache, ApplyProgram, ApplyRam, ApplyErase, sessionVars
<1>9. CASE WorkerEnters \/ WorkerCollides \/ WorkerEnds \/ TaskFinishes \/ StartupPrepare
  BY <1>1, <1>9 DEF WorkerEnters, WorkerCollides, WorkerEnds, TaskFinishes, StartupPrepare, sessionVars
<1>10. CASE \/ \E g \in parses.timers : StartNextParse(g)
            \/ \E s \in Slots : EditTimerFires(s)
  BY <1>1, <1>10 DEF StartNextParse, EditTimerFires, sessionVars
<1>11. CASE \/ \E s \in Slots, path \in Paths : EditPath(s, path)
            \/ \E p \in Ports : EditPort(p)
  BY <1>3, <1>11 DEF EditPath, EditPort, UserActs
<1>12. CASE ConnectOrDisconnect \/ Leave \/ Save \/ RemoveRecent \/ SettingsPage
  BY <1>3, <1>12 DEF ConnectOrDisconnect, Leave, Save, RemoveRecent, SettingsPage, UserActs
<1>13. CASE Answer \/ ChooseSave
  BY <1>1, <1>13 DEF Answer, ChooseSave, sessionVars
<1> QED
  BY <1>4, <1>5, <1>6, <1>7, <1>8, <1>9, <1>10, <1>11, <1>12, <1>13 DEF SessionsNext, GuiSteps

\* What the user changed disappears only when he said so: not by a switch whose
\* save failed or was refused, not by closing the window, not at the end of a
\* shutdown (_resolve_dirty, request_close, _finish_shutdown).
THEOREM WorkIsAlwaysKept == SessionsSpec => WorkIsKept
<1>1. SessionsInv /\ [SessionsNext]_guiVars =>
        [session.dirty /\ session'.document # session.document
           /\ gui.at # "write" /\ moves' = moves
           => discarded \/ faults' > faults]_guiVars
  BY StepKeepsWork DEF WorkStep
<1> QED
  BY <1>1, SessionsInvariant, PTL DEF SessionsSpec, WorkIsKept

=============================================================================
