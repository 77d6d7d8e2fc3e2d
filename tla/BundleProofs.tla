----------------------------- MODULE BundleProofs -----------------------------
(***************************************************************************)
(* Bundle's invariants, and that it implements BundleStore, for every set  *)
(* of goroutines, names and resources.                                     *)
(***************************************************************************)
EXTENDS Bundle, EntriesProofs

(* How the mutex's fields follow the goroutines' positions: the writer is  *)
(* the goroutine between announcing Lock and Unlock, it writes only when   *)
(* no reader is inside, and readers park only behind a writer.             *)
MutexInv ==
  /\ readers = {p \in Procs : pc[p] \in {"read", "runlock"}}
  /\ parked = {p \in Procs : pc[p] = "parked"}
  /\ \A p \in Procs : pc[p] \in {"drain", "apply"} <=> writer = p
  /\ \A p \in Procs : pc[p] = "apply" => readers = {}
  /\ parked # {} => writer # NoProc

(* What each goroutine is doing is what it was called for. *)
CallInv ==
  \A p \in Procs :
    /\ pc[p] \in {"rlock", "parked", "read", "runlock"} => call[p] \in Lookups
    /\ pc[p] \in {"lock", "drain", "apply"} => call[p] \in Adds

IInv == TypeOK /\ MutexInv /\ CallInv

LEMMA EntriesTyped ==
  ASSUME NEW c \in Adds, NEW n \in Nat \ {0}, n <= Len(c.res)
  PROVE  c.res[n] \in Entry
<1>1. c.res \in Seq(Entry)  BY BundleAssumption DEF Adds
<1> QED  BY <1>1

LEMMA InitIInv == Init => IInv
<1> SUFFICES ASSUME Init PROVE IInv  OBVIOUS
<1>1. TypeOK  BY DEF Init, TypeOK
<1>2. MutexInv  BY BundleAssumption DEF Init, MutexInv
<1>3. CallInv  BY DEF Init, CallInv
<1> QED  BY <1>1, <1>2, <1>3 DEF IInv

LEMMA NextIInv == IInv /\ [Next]_vars => IInv'
<1> SUFFICES ASSUME IInv, [Next]_vars PROVE IInv'
  OBVIOUS
<1> USE DEF IInv
<1>1. CASE UNCHANGED vars
  BY <1>1 DEF TypeOK, MutexInv, CallInv, vars
<1>2. ASSUME NEW p \in Procs, CallLookup(p) PROVE IInv'
  BY <1>2 DEF CallLookup, Called, Goto, mu, TypeOK, MutexInv, CallInv
<1>3. ASSUME NEW p \in Procs, RLock(p) PROVE IInv'
  <2>1. TypeOK'  BY <1>3 DEF RLock, Goto, TypeOK
  <2>2. MutexInv'
    <3>1. \A q \in Procs : pc[q] \notin {"drain", "apply"}
      BY <1>3, BundleAssumption DEF RLock, MutexInv
    <3> QED  BY <1>3, <3>1 DEF RLock, Goto, TypeOK, MutexInv
  <2>3. CallInv'  BY <1>3 DEF RLock, Goto, TypeOK, CallInv
  <2> QED  BY <2>1, <2>2, <2>3
<1>4. ASSUME NEW p \in Procs, Park(p) PROVE IInv'
  BY <1>4 DEF Park, Goto, TypeOK, MutexInv, CallInv
<1>5. ASSUME NEW p \in Procs, ReadMap(p) PROVE IInv'
  <2>1. call[p] \in Lookups  BY <1>5 DEF ReadMap, CallInv
  <2>2. defs[call[p].kind][call[p].id] \in Defs \cup {Absent}
    BY <2>1 DEF Lookups, TypeOK
  <2> QED  BY <1>5, <2>2 DEF ReadMap, Goto, mu, TypeOK, MutexInv, CallInv
<1>6. ASSUME NEW p \in Procs, RUnlock(p) PROVE IInv'
  BY <1>6 DEF RUnlock, Goto, TypeOK, MutexInv, CallInv
<1>7. ASSUME NEW p \in Procs, CallAdd(p) PROVE IInv'
  BY <1>7 DEF CallAdd, Called, Goto, mu, TypeOK, MutexInv, CallInv
<1>8. ASSUME NEW p \in Procs, Announce(p) PROVE IInv'
  BY <1>8, BundleAssumption DEF Announce, Goto, TypeOK, MutexInv, CallInv
<1>9. ASSUME NEW p \in Procs, Lock(p) PROVE IInv'
  BY <1>9 DEF Lock, Goto, mu, TypeOK, MutexInv, CallInv
<1>10. ASSUME NEW p \in Procs, AddEntry(p) PROVE IInv'
  <2> DEFINE e == call[p].res[next[p]]
  <2>1. call[p] \in Adds  BY <1>10 DEF AddEntry, CallInv
  <2>2. e \in Entry  BY <1>10, <2>1, EntriesTyped DEF AddEntry, TypeOK
  <2>3. TypeOK'
    <3>1. defs' \in [Kinds -> [Ids -> Defs \cup {Absent}]]
      <4>1. CASE Reject(p, e)  BY <1>10, <4>1 DEF AddEntry, TypeOK
      <4>2. CASE ~Reject(p, e)
        <5>1. defs' = [defs EXCEPT ![e.kind][e.id] = e.def]
          BY <1>10, <4>2 DEF AddEntry
        <5> QED  BY <2>2, <5>1 DEF TypeOK, Entry
      <4> QED  BY <4>1, <4>2
    <3>2. errs' \in [Procs -> SUBSET Nat] /\ next' \in [Procs -> Nat \ {0}]
      <4>1. next[p] \in Nat \ {0} /\ errs[p] \in SUBSET Nat  BY DEF TypeOK
      <4>2. errs' = errs \/ errs' = [errs EXCEPT ![p] = @ \cup {next[p]}]
        BY <1>10 DEF AddEntry
      <4>3. errs' \in [Procs -> SUBSET Nat]
        <5>1. errs[p] \cup {next[p]} \in SUBSET Nat  BY <4>1
        <5> QED  BY <4>2, <5>1 DEF TypeOK
      <4>4. next' = [next EXCEPT ![p] = next[p] + 1]  BY <1>10 DEF AddEntry
      <4>5. next' \in [Procs -> Nat \ {0}]  BY <4>1, <4>4 DEF TypeOK
      <4> QED  BY <4>3, <4>5
    <3> QED  BY <1>10, <3>1, <3>2 DEF AddEntry, TypeOK, mu
  <2>4. MutexInv'  BY <1>10 DEF AddEntry, MutexInv, mu
  <2>5. CallInv'  BY <1>10 DEF AddEntry, CallInv
  <2> QED  BY <2>3, <2>4, <2>5
<1>11. ASSUME NEW p \in Procs, Unlock(p) PROVE IInv'
  <2>1. TypeOK'  BY <1>11 DEF Unlock, TypeOK
  <2>2. MutexInv'
    BY <1>11, BundleAssumption DEF Unlock, TypeOK, MutexInv
  <2>3. CallInv'  BY <1>11 DEF Unlock, CallInv, MutexInv
  <2> QED  BY <2>1, <2>2, <2>3
<1> QED
  BY <1>1, <1>2, <1>3, <1>4, <1>5, <1>6, <1>7, <1>8, <1>9, <1>10, <1>11 DEF Next

THEOREM BundleInductive == Spec => []IInv
BY InitIInv, NextIInv, PTL DEF Spec

(* Every goroutine's calls and results stay well formed. *)
THEOREM BundleTypeCorrect == Spec => []TypeOK
BY BundleInductive, PTL DEF IInv

(* Message, lookupTerm and AddResource never meet at a map: addResource    *)
(* writes while no other goroutine is inside the lock.                     *)
THEOREM BundleRaceFree == Spec => []NoDataRace
<1>1. IInv => NoDataRace
  BY DEF IInv, MutexInv, NoDataRace, TypeOK
<1> QED  BY <1>1, BundleInductive, PTL

(* No deadlock: a lookup waits behind a writer only, a writer behind the   *)
(* one before it or behind readers that are inside, and these wait for no  *)
(* one.                                                                    *)
THEOREM BundleNoDeadlock == Spec => []WaitsBehindHolder
<1>1. IInv => WaitsBehindHolder
  <2> SUFFICES ASSUME IInv, NEW p \in Procs, Waits(p)
               PROVE  \E q \in Procs : Inside(q) /\ ~Waits(q)
    BY DEF WaitsBehindHolder
  <2>1. writer \in Procs
    BY BundleAssumption DEF IInv, TypeOK, MutexInv, Waits
  <2>2. Inside(writer)  BY <2>1 DEF IInv, MutexInv, Inside
  <2>3. CASE ~Waits(writer)  BY <2>1, <2>2, <2>3
  <2>4. CASE Waits(writer)
    <3>1. readers # {}  BY <2>2, <2>4 DEF Waits, Inside
    <3>2. PICK q \in Procs : pc[q] \in {"read", "runlock"}
      BY <3>1 DEF IInv, MutexInv
    <3> QED  BY <3>2 DEF Inside, Waits
  <2> QED  BY <2>3, <2>4
<1> QED  BY <1>1, BundleInductive, PTL

(* AddResource never replaces a definition, and nothing removes one. *)
THEOREM BundleKeepsDefinitions == Spec => KeepsDefinitions
<1>1. IInv /\ [Next]_vars => [ReplacesOnlyByOverride]_vars
  <2> SUFFICES ASSUME IInv, [Next]_vars PROVE ReplacesOnlyByOverride \/ UNCHANGED vars
    OBVIOUS
  <2>1. CASE defs' = defs  BY <2>1 DEF ReplacesOnlyByOverride
  <2>2. ASSUME NEW p \in Procs, AddEntry(p) PROVE ReplacesOnlyByOverride
    <3> DEFINE e == call[p].res[next[p]]
    <3>1. call[p] \in Adds  BY <2>2 DEF AddEntry, CallInv, IInv
    <3>2. e \in Entry
      BY <2>2, <3>1, EntriesTyped DEF AddEntry, TypeOK, IInv
    <3>3. writer = p  BY <2>2 DEF AddEntry, MutexInv, IInv
    <3>4. call[p].override \in BOOLEAN  BY <3>1 DEF Adds
    <3>5. CASE Reject(p, e)  BY <2>2, <3>5 DEF AddEntry, ReplacesOnlyByOverride
    <3>6. CASE ~Reject(p, e)
      <4>1. defs' = [defs EXCEPT ![e.kind][e.id] = e.def]
        BY <2>2, <3>6 DEF AddEntry
      <4>2. call[p].override \/ defs[e.kind][e.id] = Absent
        BY <3>6, <3>4 DEF Reject
      <4>3. e.kind \in Kinds /\ e.id \in Ids /\ e.def \in Defs /\ e.def # Absent
        BY <3>2, BundleAssumption DEF Entry
      <4>4. ASSUME NEW kind \in Kinds, NEW id \in Ids,
                   defs[kind][id] # Absent, defs'[kind][id] # defs[kind][id]
            PROVE  defs'[kind][id] # Absent /\ writer \in Procs /\ call[writer].override
        <5>1. defs \in [Kinds -> [Ids -> Defs \cup {Absent}]]
          BY DEF IInv, TypeOK
        <5>2. kind = e.kind /\ id = e.id  BY <4>1, <4>3, <4>4, <5>1
        <5>3. defs'[kind][id] = e.def  BY <4>1, <4>3, <5>1, <5>2
        <5> QED  BY <4>2, <4>3, <4>4, <5>2, <5>3, <3>3
      <4> QED  BY <4>4 DEF ReplacesOnlyByOverride
    <3> QED  BY <3>5, <3>6
  <2>3. defs' = defs \/ \E p \in Procs : AddEntry(p)
    BY DEF Next, vars, CallLookup, Called, RLock, Park, ReadMap, RUnlock,
                CallAdd, Announce, Lock, Unlock
  <2> QED  BY <2>1, <2>2, <2>3
<1> QED  BY <1>1, BundleInductive, PTL DEF Spec, KeepsDefinitions

-----------------------------------------------------------------------------
(* The bundle with its lock and its entry-by-entry loop implements the     *)
(* atomic BundleStore, under the refinement mapping of module Bundle.      *)

(* One turn of addResource's loop, at entry e: AddEntry. *)
Turn(ds, e, override) ==
  IF ~override /\ ds[e.kind][e.id] # Absent THEN ds
  ELSE [ds EXCEPT ![e.kind][e.id] = e.def]

(* What the rest of the loop must still do is what it had to do before     *)
(* this turn, less this turn's entry.                                      *)
LEMMA AppliedTurn ==
  ASSUME NEW ds \in [Kinds -> [Ids -> Defs \cup {Absent}]],
         NEW res \in Seq(Entry),
         NEW i \in 1..Len(res), NEW override
  PROVE  Applied(Turn(ds, res[i], override), res, i + 1, override)
           = Applied(ds, res, i, override)
<1> DEFINE e == res[i]
           new == Turn(ds, e, override)
           Value(st, kind, id, from) ==
             IF Defining(res, kind, id, from) = {} \/ (~override /\ st[kind][id] # Absent)
               THEN st[kind][id]
               ELSE res[IF override THEN LastOf(Defining(res, kind, id, from))
                        ELSE FirstOf(Defining(res, kind, id, from))].def
<1>1. e.kind \in Kinds /\ e.id \in Ids /\ e.def \in Defs
  <2>1. e \in Entry  BY ElementTyped
  <2> QED  BY <2>1 DEF Entry
<1>2. new \in [Kinds -> [Ids -> Defs \cup {Absent}]]  BY <1>1 DEF Turn
<1>3. ASSUME NEW kind \in Kinds, NEW id \in Ids
      PROVE  Value(new, kind, id, i + 1) = Value(ds, kind, id, i)
  <2> DEFINE js == Defining(res, kind, id, i)
             later == Defining(res, kind, id, i + 1)
  <2>1. CASE kind # e.kind \/ id # e.id
    <3>1. js = later  BY <2>1 DEF Defining
    <3>2. new[kind][id] = ds[kind][id]  BY <1>1, <2>1 DEF Turn
    <3> QED  BY <3>1, <3>2
  <2>2. CASE kind = e.kind /\ id = e.id
    <3>1. js = later \cup {i} /\ i \notin later  BY <2>2 DEF Defining
    <3>2. later \in SUBSET (0..Len(res)) /\ (\A k \in later : i < k)
      BY DEF Defining
    <3>3. /\ FirstOf(js) = i
          /\ later = {} => LastOf(js) = i
          /\ later # {} => LastOf(js) = LastOf(later)
      <4> HIDE DEF js, later, Value, new, e
      <4>1. Len(res) \in Nat /\ i \in 0..Len(res)  OBVIOUS
      <4>2. /\ FirstOf(later \cup {i}) = i
            /\ later = {} => LastOf(later \cup {i}) = i
            /\ later # {} => LastOf(later \cup {i}) = LastOf(later)
        BY <3>2, <4>1, EarlierAdded
      <4> QED  BY <3>1, <4>2
    <3>4. CASE override
      <4>1. new[kind][id] = e.def  BY <1>1, <2>2, <3>4 DEF Turn
      <4> HIDE DEF js, later, new
      <4> QED  BY <3>1, <3>3, <3>4, <4>1 DEF js, later
    <3>5. CASE ~override /\ ds[kind][id] # Absent
      <4>1. new = ds  BY <2>2, <3>5 DEF Turn
      <4> QED  BY <3>5, <4>1
    <3>6. CASE ~override /\ ds[kind][id] = Absent
      <4>1. new[kind][id] = e.def /\ e.def # Absent
        BY <1>1, <2>2, <3>6, BundleAssumption DEF Turn
      <4> HIDE DEF js, later, new
      <4> QED  BY <3>1, <3>3, <3>6, <4>1 DEF js, later
    <3> QED  BY <3>4, <3>5, <3>6
  <2> QED  BY <2>1, <2>2
<1>4. Applied(new, res, i + 1, override) =
        [kind \in Kinds |-> [id \in Ids |-> Value(new, kind, id, i + 1)]]
  BY <1>2 DEF Applied
<1>5. Applied(ds, res, i, override) =
        [kind \in Kinds |-> [id \in Ids |-> Value(ds, kind, id, i)]]
  BY DEF Applied
<1> HIDE DEF new, Value
<1> QED  BY <1>3, <1>4, <1>5 DEF new

(* The entries that the rest of the loop rejects, and this turn's if it is *)
(* rejected, are those that were to be rejected before this turn.          *)
LEMMA RejectedTurn ==
  ASSUME NEW ds \in [Kinds -> [Ids -> Defs \cup {Absent}]],
         NEW res \in Seq(Entry),
         NEW i \in 1..Len(res), NEW override
  PROVE  Rejected(ds, res, i, override) =
           Rejected(Turn(ds, res[i], override), res, i + 1, override)
             \cup (IF ~override /\ ds[res[i].kind][res[i].id] # Absent THEN {i} ELSE {})
<1> DEFINE e == res[i]
           new == Turn(ds, e, override)
           Bad(st, j, from) ==
             \/ st[res[j].kind][res[j].id] # Absent
             \/ \E k \in Defining(res, res[j].kind, res[j].id, from) : k < j
<1>1. CASE override  BY <1>1 DEF Rejected
<1>2. CASE ~override
  <2>1. Bad(ds, i, i) <=> ds[e.kind][e.id] # Absent  BY DEF Defining
  <2>2. ASSUME NEW j \in i + 1..Len(res)
        PROVE  Bad(ds, j, i) <=> Bad(new, j, i + 1)
    <3> DEFINE f == res[j]
    <3>1. /\ e.kind \in Kinds /\ e.id \in Ids /\ e.def \in Defs
          /\ f.kind \in Kinds /\ f.id \in Ids
      <4>1. j \in 1..Len(res)  OBVIOUS
      <4>2. e \in Entry /\ f \in Entry  BY <4>1, ElementTyped
      <4> QED  BY <4>2 DEF Entry
    <3>2. CASE f.kind # e.kind \/ f.id # e.id
      <4>1. Defining(res, f.kind, f.id, i) = Defining(res, f.kind, f.id, i + 1)
        BY <3>2 DEF Defining
      <4>2. new[f.kind][f.id] = ds[f.kind][f.id]  BY <3>1, <3>2 DEF Turn
      <4> QED  BY <4>1, <4>2
    <3>3. CASE f.kind = e.kind /\ f.id = e.id
      <4>1. new[f.kind][f.id] # Absent  BY <1>2, <3>1, <3>3, BundleAssumption DEF Turn
      <4>2. i \in Defining(res, f.kind, f.id, i) /\ i < j  BY <3>3 DEF Defining
      <4> QED  BY <4>1, <4>2
    <3> QED  BY <3>2, <3>3
  <2>3. Rejected(ds, res, i, override) = {j \in i..Len(res) : Bad(ds, j, i)}
    BY <1>2 DEF Rejected
  <2>4. Rejected(new, res, i + 1, override) = {j \in i + 1..Len(res) : Bad(new, j, i + 1)}
    BY <1>2 DEF Rejected
  <2>5. i..Len(res) = {i} \cup i + 1..Len(res)  OBVIOUS
  <2> HIDE DEF Bad, new
  <2> QED  BY <1>2, <2>1, <2>2, <2>3, <2>4, <2>5 DEF new
<1> QED  BY <1>1, <1>2

(* After the last entry nothing is left to apply or to reject. *)
LEMMA NothingLeft ==
  ASSUME NEW ds \in [Kinds -> [Ids -> Defs \cup {Absent}]],
         NEW res \in Seq(Entry),
         NEW i \in Nat, i > Len(res), NEW override
  PROVE  /\ Applied(ds, res, i, override) = ds
         /\ Rejected(ds, res, i, override) = {}
<1>1. i..Len(res) = {}  OBVIOUS
<1>2. \A kind \in Kinds, id \in Ids : Defining(res, kind, id, i) = {}
  BY <1>1 DEF Defining
<1>3. Applied(ds, res, i, override) = ds
  <2>1. Applied(ds, res, i, override) = [kind \in Kinds |-> [id \in Ids |-> ds[kind][id]]]
    BY <1>2 DEF Applied
  <2> QED  BY <2>1
<1>4. Rejected(ds, res, i, override) = {}  BY <1>1 DEF Rejected
<1> QED  BY <1>3, <1>4

-----------------------------------------------------------------------------
(* An addition that waits for the lock has not begun. *)
StartInv ==
  \A p \in Procs : pc[p] \in {"lock", "drain"} => next[p] = 1 /\ errs[p] = {}

LEMMA NextStartInv == IInv /\ StartInv /\ [Next]_vars => StartInv'
<1> SUFFICES ASSUME IInv, StartInv, [Next]_vars PROVE StartInv'  OBVIOUS
<1>1. CASE UNCHANGED vars  BY <1>1 DEF StartInv, vars
<1>2. ASSUME NEW p \in Procs, CallLookup(p) \/ CallAdd(p) PROVE StartInv'
  BY <1>2 DEF CallLookup, CallAdd, Called, Goto, StartInv, IInv, TypeOK
<1>3. ASSUME NEW p \in Procs, AddEntry(p) PROVE StartInv'
  BY <1>3 DEF AddEntry, StartInv, IInv, TypeOK
<1>4. ASSUME NEW p \in Procs, Unlock(p) PROVE StartInv'
  BY <1>4 DEF Unlock, StartInv, IInv, TypeOK
<1>5. ASSUME NEW p \in Procs,
             RLock(p) \/ Park(p) \/ ReadMap(p) \/ RUnlock(p) \/ Announce(p) \/ Lock(p)
      PROVE  StartInv'
  BY <1>5 DEF RLock, Park, ReadMap, RUnlock, Announce, Lock, Goto, StartInv, IInv, TypeOK
<1> QED  BY <1>1, <1>2, <1>3, <1>4, <1>5 DEF Next

LEMMA RefinementInductive == Spec => [](IInv /\ StartInv)
<1>1. Init => StartInv  BY DEF Init, StartInv
<1> QED  BY <1>1, NextStartInv, BundleInductive, PTL DEF Spec

(* At most one goroutine is inside addResource's loop; the view of the     *)
(* maps adds what it has still to add.                                     *)
Ahead ==
  /\ \A p \in Procs :
       Applying(p) => defsView = Applied(defs, call[p].res, next[p], call[p].override)
  /\ (\A p \in Procs : ~Applying(p)) => defsView = defs

LEMMA ViewAhead == IInv => Ahead
<1> SUFFICES ASSUME IInv PROVE Ahead  OBVIOUS
<1>1. ASSUME NEW p \in Procs, Applying(p)
      PROVE  defsView = Applied(defs, call[p].res, next[p], call[p].override)
  <2>1. \A q \in Procs : Applying(q) <=> q = p
    BY <1>1 DEF IInv, MutexInv, Applying
  <2> QED  BY <2>1 DEF defsView
<1>2. (\A p \in Procs : ~Applying(p)) => defsView = defs  BY DEF defsView
<1> QED  BY <1>1, <1>2 DEF Ahead

(* A step outside the loop, its start and its end leaves the maps' view.   *)
LEMMA OutsideLoop ==
  ASSUME IInv, IInv', UNCHANGED defs,
         \A p \in Procs : Applying(p)' <=> Applying(p),
         \A p \in Procs : Applying(p) => call'[p] = call[p] /\ next'[p] = next[p]
  PROVE  defsView' = defsView
<1>1. Ahead /\ Ahead'  BY ViewAhead, PTL
<1>2. CASE \A p \in Procs : ~Applying(p)  BY <1>1, <1>2 DEF Ahead
<1>3. CASE \E p \in Procs : Applying(p)   BY <1>1, <1>3 DEF Ahead
<1> QED  BY <1>2, <1>3

(* What the instance calls Applied and Rejected is what Bundle does. *)
LEMMA SameEntries ==
  ASSUME NEW ds, NEW res, NEW i, NEW override
  PROVE  /\ Store!Applied(ds, res, i, override) = Applied(ds, res, i, override)
         /\ Store!Rejected(ds, res, i, override) = Rejected(ds, res, i, override)
BY DEF Store!Applied, Applied, Store!Rejected, Rejected, Store!Kinds, Kinds,
       Store!Defining, Defining, Store!FirstOf, FirstOf, Store!LastOf, LastOf

LEMMA InitRefines == Init => Store!Init
<1> SUFFICES ASSUME Init PROVE Store!Init  OBVIOUS
<1>1. \A p \in Procs : ~Applying(p)  BY DEF Init, Applying
<1>2. defsView = defs  BY <1>1 DEF defsView
<1>3. pcView = [p \in Procs |-> "idle"]  BY DEF Init, pcView
<1>4. errsView = [p \in Procs |-> {}]  BY <1>1 DEF Init, errsView
<1> QED
  BY <1>2, <1>3, <1>4
     DEF Init, Store!Init, Store!Kinds, Kinds, Store!Lookups, Lookups

(* Every step of the bundle is a step of the store or a stutter. *)
LEMMA NextRefines ==
  IInv /\ IInv' /\ StartInv /\ [Next]_vars => [Store!Next]_(Store!vars)
<1> SUFFICES ASSUME IInv, IInv', StartInv, [Next]_vars
             PROVE  Store!Next \/ UNCHANGED <<defsView, pcView, call, errsView, found>>
  BY DEF Store!vars
<1>1. CASE UNCHANGED vars
  <2>1. UNCHANGED <<defs, pc, call, next, errs, found>>  BY <1>1 DEF vars
  <2>2. \A p \in Procs : Applying(p)' <=> Applying(p)  BY <2>1 DEF Applying
  <2>3. defsView' = defsView  BY <2>1, <2>2, OutsideLoop
  <2>4. pcView' = pcView /\ errsView' = errsView  BY <2>1, <2>2 DEF pcView, errsView
  <2> QED  BY <2>1, <2>3, <2>4
<1>2. ASSUME NEW p \in Procs, CallLookup(p) \/ CallAdd(p) PROVE Store!Invoke(p)
  <2>1. pc[p] = "idle" /\ UNCHANGED defs /\ next' = [next EXCEPT ![p] = 1]
    BY <1>2 DEF CallLookup, CallAdd, Called
  <2>2. \E label \in {"rlock", "lock"} : pc' = [pc EXCEPT ![p] = label]
    BY <1>2 DEF CallLookup, CallAdd, Called, Goto
  <2>3. \E c \in Lookups \cup Adds : call' = [call EXCEPT ![p] = c]
    BY <1>2 DEF CallLookup, CallAdd, Called
  <2>4. errs' = [errs EXCEPT ![p] = {}] /\ found' = [found EXCEPT ![p] = Absent]
    BY <1>2 DEF CallLookup, CallAdd, Called
  <2>5. \A q \in Procs : Applying(q)' <=> Applying(q)
    BY <2>1, <2>2 DEF Applying, IInv, TypeOK
  <2>6. \A q \in Procs : Applying(q) => q # p /\ call'[q] = call[q] /\ next'[q] = next[q]
    BY <2>1, <2>3 DEF Applying, IInv, TypeOK
  <2>7. defsView' = defsView  BY <2>1, <2>5, <2>6, OutsideLoop
  <2>8. pcView[p] = "idle" /\ pcView' = [pcView EXCEPT ![p] = "called"]
    BY <2>1, <2>2 DEF pcView, IInv, TypeOK
  <2>9. errsView' = [errsView EXCEPT ![p] = {}]
    BY <2>1, <2>2, <2>4, <2>5, <2>6 DEF errsView, IInv, TypeOK
  <2> QED
    BY <2>3, <2>4, <2>7, <2>8, <2>9
       DEF Store!Invoke, Store!Lookups, Lookups, Store!Adds, Adds, Store!Kinds, Kinds
<1>3. ASSUME NEW p \in Procs, RLock(p) \/ Park(p) \/ Announce(p)
      PROVE  UNCHANGED <<defsView, pcView, call, errsView, found>>
  <2>1. UNCHANGED <<defs, call, next, errs, found>>
    BY <1>3 DEF RLock, Park, Announce
  <2>2. \E label \in {"read", "parked", "drain"} :
          pc[p] \in {"rlock", "lock"} /\ pc' = [pc EXCEPT ![p] = label]
    BY <1>3 DEF RLock, Park, Announce, Goto
  <2>3. \A q \in Procs : Applying(q)' <=> Applying(q)
    BY <2>2 DEF Applying, IInv, TypeOK
  <2>4. defsView' = defsView  BY <2>1, <2>3, OutsideLoop
  <2>5. pcView' = pcView  BY <2>2 DEF pcView, IInv, TypeOK
  <2>6. errsView' = errsView  BY <2>1, <2>3 DEF errsView
  <2> QED  BY <2>1, <2>4, <2>5, <2>6
<1>4. ASSUME NEW p \in Procs, ReadMap(p) PROVE Store!Lookup(p)
  <2>1. /\ UNCHANGED <<defs, call, next, errs>>
        /\ pc[p] = "read" /\ pc' = [pc EXCEPT ![p] = "runlock"]
        /\ found' = [found EXCEPT ![p] = defs[call[p].kind][call[p].id]]
    BY <1>4 DEF ReadMap, Goto
  <2>2. \A q \in Procs : Applying(q)' <=> Applying(q)
    BY <2>1 DEF Applying, IInv, TypeOK
  <2>3. defsView' = defsView  BY <2>1, <2>2, OutsideLoop
  <2>4. defsView = defs
    <3>1. \A q \in Procs : ~Applying(q)  BY <2>1 DEF Applying, IInv, MutexInv
    <3> QED  BY <3>1 DEF defsView
  <2>5. pcView[p] = "called" /\ pcView' = [pcView EXCEPT ![p] = "returning"]
    BY <2>1 DEF pcView, IInv, TypeOK
  <2>6. errsView' = errsView  BY <2>1, <2>2 DEF errsView
  <2>7. call[p].op = "lookup"  BY <2>1 DEF IInv, CallInv, Lookups
  <2> QED  BY <2>1, <2>3, <2>4, <2>5, <2>6, <2>7 DEF Store!Lookup
<1>5. ASSUME NEW p \in Procs, RUnlock(p) PROVE Store!Return(p)
  <2>1. /\ UNCHANGED <<defs, call, next, errs, found>>
        /\ pc[p] = "runlock" /\ pc' = [pc EXCEPT ![p] = "idle"]
    BY <1>5 DEF RUnlock, Goto
  <2>2. \A q \in Procs : Applying(q)' <=> Applying(q)
    BY <2>1 DEF Applying, IInv, TypeOK
  <2>3. defsView' = defsView  BY <2>1, <2>2, OutsideLoop
  <2>4. pcView[p] = "returning" /\ pcView' = [pcView EXCEPT ![p] = "idle"]
    BY <2>1 DEF pcView, IInv, TypeOK
  <2>5. errsView' = errsView  BY <2>1, <2>2 DEF errsView
  <2> QED  BY <2>1, <2>3, <2>4, <2>5 DEF Store!Return
<1>6. ASSUME NEW p \in Procs, Lock(p) PROVE Store!Add(p)
  <2>1. /\ UNCHANGED <<defs, call, next, errs, found>>
        /\ pc[p] = "drain" /\ pc' = [pc EXCEPT ![p] = "apply"]
    BY <1>6 DEF Lock, Goto
  <2>2. call[p] \in Adds  BY <2>1 DEF IInv, CallInv
  <2>3. next[p] = 1 /\ errs[p] = {}  BY <2>1 DEF StartInv
  <2>4. \A q \in Procs : ~Applying(q) /\ (Applying(q)' <=> q = p)
    BY <2>1 DEF Applying, IInv, MutexInv, TypeOK
  <2>5. defsView = defs  BY <2>4 DEF defsView
  <2>6. defsView' = Applied(defs, call[p].res, 1, call[p].override)
    <3>1. Ahead'  BY ViewAhead, PTL
    <3> QED  BY <2>1, <2>3, <2>4, <3>1 DEF Ahead
  <2>7. errsView' = [errsView EXCEPT ![p] = Rejected(defs, call[p].res, 1, call[p].override)]
    <3>1. \A q \in Procs : errsView[q] = errs[q]  BY <2>4 DEF errsView
    <3>2. \A q \in Procs : q # p => errsView'[q] = errs[q]  BY <2>1, <2>4 DEF errsView
    <3>3. errsView'[p] = Rejected(defs, call[p].res, 1, call[p].override)
      BY <2>1, <2>3, <2>4 DEF errsView
    <3> QED  BY <3>1, <3>2, <3>3 DEF errsView
  <2>8. pcView[p] = "called" /\ pcView' = [pcView EXCEPT ![p] = "returning"]
    BY <2>1 DEF pcView, IInv, TypeOK
  <2>9. call[p].op = "add"  BY <2>2 DEF Adds
  <2> QED
    BY <2>1, <2>5, <2>6, <2>7, <2>8, <2>9, SameEntries DEF Store!Add
<1>7. ASSUME NEW p \in Procs, AddEntry(p)
      PROVE  UNCHANGED <<defsView, pcView, call, errsView, found>>
  <2> DEFINE res == call[p].res
             override == call[p].override
             e == res[next[p]]
  <2>1. /\ pc[p] = "apply" /\ UNCHANGED <<pc, call, found>>
        /\ next[p] <= Len(res) /\ next' = [next EXCEPT ![p] = next[p] + 1]
    BY <1>7 DEF AddEntry
  <2>2. /\ call[p] \in Adds
        /\ defs \in [Kinds -> [Ids -> Defs \cup {Absent}]]
        /\ next \in [Procs -> Nat \ {0}] /\ errs \in [Procs -> SUBSET Nat]
    BY <2>1 DEF IInv, CallInv, TypeOK
  <2>3. res \in Seq(Entry)
    BY <2>2, BundleAssumption DEF Adds
  <2>4. next[p] \in 1..Len(res)
    <3>1. Len(res) \in Nat /\ next[p] \in Nat \ {0}  BY <2>2, <2>3
    <3> QED  BY <2>1, <3>1
  <2>5. Reject(p, e) <=> ~override /\ defs[e.kind][e.id] # Absent  BY DEF Reject
  <2>6. defs' = Turn(defs, e, override)
    BY <1>7, <2>5 DEF AddEntry, Turn
  <2>7. /\ errs' \in [Procs -> SUBSET Nat]
        /\ \A q \in Procs : q # p => errs'[q] = errs[q]
        /\ errs'[p] = errs[p] \cup (IF ~override /\ defs[e.kind][e.id] # Absent
                                    THEN {next[p]} ELSE {})
    <3>1. errs' \in [Procs -> SUBSET Nat]  BY DEF IInv, TypeOK
    <3>2. CASE Reject(p, e)
      <4>1. errs' = [errs EXCEPT ![p] = errs[p] \cup {next[p]}]
        BY <1>7, <3>2 DEF AddEntry
      <4> QED  BY <2>2, <2>5, <3>1, <3>2, <4>1
    <3>3. CASE ~Reject(p, e)
      <4>1. errs' = errs  BY <1>7, <3>3 DEF AddEntry
      <4> QED  BY <2>5, <3>1, <3>3, <4>1
    <3> QED  BY <3>2, <3>3
  <2>8. Applying(p) /\ Applying(p)'  BY <2>1 DEF Applying
  <2>9. next'[p] = next[p] + 1 /\ call'[p] = call[p]  BY <2>1, <2>2
  <2>10. defsView' = defsView
    <3>1. defsView = Applied(defs, res, next[p], override)
      BY <2>8, ViewAhead DEF Ahead
    <3>2. defsView' = Applied(defs', res, next[p] + 1, override)
      <4>1. Ahead'  BY ViewAhead, PTL
      <4> QED  BY <2>8, <2>9, <4>1 DEF Ahead
    <3>3. Applied(Turn(defs, res[next[p]], override), res, next[p] + 1, override)
            = Applied(defs, res, next[p], override)
      <4> HIDE DEF res, override, e
      <4> QED  BY <2>2, <2>3, <2>4, AppliedTurn
    <3> QED  BY <2>6, <3>1, <3>2, <3>3
  <2>11. errsView' = errsView
    <3>1. \A q \in Procs : q # p => ~Applying(q) /\ ~Applying(q)'
      BY <2>1 DEF Applying, IInv, MutexInv
    <3>2. errsView[p] = errs[p] \cup Rejected(defs, res, next[p], override)
      BY <2>8 DEF errsView
    <3>3. errsView'[p] = errs'[p] \cup Rejected(defs', res, next[p] + 1, override)
      BY <2>8, <2>9 DEF errsView
    <3>4. errsView'[p] = errsView[p]
      <4>1. Rejected(defs, res, next[p], override) =
              Rejected(defs', res, next[p] + 1, override)
                \cup (IF ~override /\ defs[e.kind][e.id] # Absent THEN {next[p]} ELSE {})
        <5>1. Rejected(defs, res, next[p], override) =
                Rejected(Turn(defs, res[next[p]], override), res, next[p] + 1, override)
                  \cup (IF ~override /\ defs[res[next[p]].kind][res[next[p]].id] # Absent
                        THEN {next[p]} ELSE {})
          <6> HIDE DEF res, override, e
          <6> QED  BY <2>2, <2>3, <2>4, RejectedTurn
        <5> QED  BY <2>6, <5>1
      <4> HIDE DEF res, override, e
      <4> QED  BY <2>7, <3>2, <3>3, <4>1
    <3>5. \A q \in Procs : q # p => errsView'[q] = errsView[q]
      BY <2>7, <3>1 DEF errsView
    <3> QED  BY <3>4, <3>5 DEF errsView
  <2>12. pcView' = pcView  BY <2>1 DEF pcView
  <2> QED  BY <2>1, <2>10, <2>11, <2>12
<1>8. ASSUME NEW p \in Procs, Unlock(p) PROVE Store!Return(p)
  <2> DEFINE res == call[p].res
             override == call[p].override
  <2>1. /\ pc[p] = "apply" /\ next[p] > Len(res)
        /\ pc' = [q \in Procs |-> IF q = p THEN "idle"
                                   ELSE IF q \in parked THEN "read" ELSE pc[q]]
        /\ UNCHANGED <<defs, call, next, errs, found>>
    BY <1>8 DEF Unlock
  <2>2. /\ call[p] \in Adds
        /\ defs \in [Kinds -> [Ids -> Defs \cup {Absent}]]
        /\ next[p] \in Nat
    BY <2>1 DEF IInv, CallInv, TypeOK
  <2>3. res \in Seq(Entry)
    BY <2>2, BundleAssumption DEF Adds
  <2>4. /\ Applied(defs, res, next[p], override) = defs
        /\ Rejected(defs, res, next[p], override) = {}
    <3> HIDE DEF res, override
    <3>1. defs \in [Kinds -> [Ids -> Defs \cup {Absent}]]  BY <2>2
    <3> QED  BY <2>1, <2>2, <2>3, <3>1, NothingLeft
  <2>5. \A q \in Procs : (Applying(q) <=> q = p) /\ ~Applying(q)'
    BY <2>1 DEF Applying, IInv, MutexInv
  <2>6. defsView' = defsView
    <3>1. defsView = defs  BY <2>4, <2>5, ViewAhead DEF Ahead
    <3>2. defsView' = defs'  BY <2>5 DEF defsView
    <3> QED  BY <2>1, <3>1, <3>2
  <2>7. errsView' = errsView  BY <2>1, <2>4, <2>5 DEF errsView
  <2>8. pcView[p] = "returning" /\ pcView' = [pcView EXCEPT ![p] = "idle"]
    <3> DEFINE View(label) ==
                 CASE label = "idle" -> "idle"
                   [] label \in {"rlock", "parked", "read", "lock", "drain"} -> "called"
                   [] label \in {"runlock", "apply"} -> "returning"
    <3>1. /\ View("apply") = "returning" /\ View("idle") = "idle"
          /\ View("parked") = "called" /\ View("read") = "called"
      OBVIOUS
    <3>2. pcView = [q \in Procs |-> View(pc[q])] /\ pcView' = [q \in Procs |-> View(pc'[q])]
      BY DEF pcView
    <3> HIDE DEF View
    <3>3. pcView[p] = "returning" /\ pcView'[p] = "idle"  BY <2>1, <3>1, <3>2
    <3>4. ASSUME NEW q \in Procs, q # p
          PROVE  pcView'[q] = pcView[q]
      <4>1. CASE q \in parked
        <5>1. pc[q] = "parked" /\ pc'[q] = "read"  BY <2>1, <3>4, <4>1 DEF IInv, MutexInv
        <5> QED  BY <3>1, <3>2, <5>1
      <4>2. CASE q \notin parked
        <5>1. pc'[q] = pc[q]  BY <2>1, <3>4, <4>2
        <5> QED  BY <3>2, <5>1
      <4> QED  BY <4>1, <4>2
    <3> QED  BY <3>2, <3>3, <3>4
  <2> QED  BY <2>1, <2>6, <2>7, <2>8 DEF Store!Return
<1> QED
  BY <1>1, <1>2, <1>3, <1>4, <1>5, <1>6, <1>7, <1>8 DEF Next, Store!Next

(* The locked, entry-by-entry bundle implements the atomic store: every    *)
(* addition and every lookup takes effect at one instant.                  *)
THEOREM BundleImplementsStore == Spec => ImplementsStore
BY InitRefines, NextRefines, RefinementInductive, PTL DEF Spec, ImplementsStore, Store!Spec
=============================================================================
