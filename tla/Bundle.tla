-------------------------------- MODULE Bundle --------------------------------
(***************************************************************************)
(* A Bundle shared by goroutines (bundle.go): its two maps, the RWMutex    *)
(* that guards them, and the steps of Message / lookupTerm (RLock, read,   *)
(* RUnlock) and of AddResource / AddResourceOverriding (Lock, one step per *)
(* entry, Unlock).                                                         *)
(*                                                                         *)
(* The mutex is Go's sync.RWMutex as the code uses it: Lock first excludes *)
(* other writers, which also makes every RLock that comes later park, then *)
(* waits for the readers inside to leave; Unlock lets the parked readers   *)
(* in before the next writer.  FormatPattern holds no lock of its own: to  *)
(* the bundle it is a sequence of these lookups (module Resolver).         *)
(***************************************************************************)
EXTENDS Entries

CONSTANTS Procs,      \* goroutines
          NoProc,     \* no goroutine
          Ids,        \* message and term names
          Defs,       \* parsed messages and terms
          Resources   \* parsed resources

Entry == [kind : Kinds, id : Ids, def : Defs]

ASSUME BundleAssumption ==
  /\ NoProc \notin Procs
  /\ Absent \notin Defs
  /\ Resources \subseteq Seq(Entry)

VARIABLES defs,       \* Bundle.messages and Bundle.terms
          writer,     \* mu: the goroutine that announced Lock, or NoProc
          readers,    \* mu: the goroutines inside RLock ... RUnlock
          parked,     \* mu: the readers that wait for the writer's Unlock
          pc,         \* where each goroutine is
          call,       \* the parameters of its call
          next,       \* addResource: the next entry of res
          errs,       \* addResource: the entries rejected so far
          found       \* Message, lookupTerm: the result
vars == <<defs, writer, readers, parked, pc, call, next, errs, found>>
mu   == <<writer, readers, parked>>

Lookups == [op : {"lookup"}, kind : Kinds, id : Ids]
Adds    == [op : {"add"}, res : Resources, override : BOOLEAN]

TypeOK ==
  /\ defs \in [Kinds -> [Ids -> Defs \cup {Absent}]]
  /\ writer \in Procs \cup {NoProc}
  /\ readers \subseteq Procs
  /\ parked \subseteq Procs
  /\ pc \in [Procs -> {"idle", "rlock", "parked", "read", "runlock",
                       "lock", "drain", "apply"}]
  /\ call \in [Procs -> Lookups \cup Adds]
  /\ next \in [Procs -> Nat \ {0}]
  /\ errs \in [Procs -> SUBSET Nat]
  /\ found \in [Procs -> Defs \cup {Absent}]

Init ==
  /\ defs = [kind \in Kinds |-> [id \in Ids |-> Absent]]
  /\ writer = NoProc
  /\ readers = {}
  /\ parked = {}
  /\ pc = [p \in Procs |-> "idle"]
  /\ call \in [Procs -> Lookups]
  /\ next = [p \in Procs |-> 1]
  /\ errs = [p \in Procs |-> {}]
  /\ found = [p \in Procs |-> Absent]

Goto(p, label) == pc' = [pc EXCEPT ![p] = label]

ZeroBasedCall(p, calls, label) ==                    \* fault: wrong first entry
  /\ pc[p] = "idle"
  /\ \E c \in calls : call' = [call EXCEPT ![p] = c]
  /\ Goto(p, label)
  /\ errs' = [errs EXCEPT ![p] = {}]
  /\ found' = [found EXCEPT ![p] = Absent]
  /\ next' = [next EXCEPT ![p] = 0]
  /\ UNCHANGED <<defs, mu>>

Called(p, calls, label) ==
  /\ pc[p] = "idle"
  /\ \E c \in calls : call' = [call EXCEPT ![p] = c]
  /\ Goto(p, label)
  /\ errs' = [errs EXCEPT ![p] = {}]
  /\ found' = [found EXCEPT ![p] = Absent]
  /\ next' = [next EXCEPT ![p] = 1]
  /\ UNCHANGED <<defs, mu>>

(***************************************************************************)
(* Message(id) and lookupTerm(id)                                          *)
(***************************************************************************)
UnguardedLookup(p) == Called(p, Lookups, "read")     \* fault: no RLock
CallLookup(p) == Called(p, Lookups, "rlock")

RLock(p) ==
  /\ pc[p] = "rlock"
  /\ writer = NoProc
  /\ readers' = readers \cup {p}
  /\ Goto(p, "read")
  /\ UNCHANGED <<defs, writer, parked, call, next, errs, found>>

Park(p) ==
  /\ pc[p] = "rlock"
  /\ writer # NoProc
  /\ parked' = parked \cup {p}
  /\ Goto(p, "parked")
  /\ UNCHANGED <<defs, writer, readers, call, next, errs, found>>

ReadMap(p) ==
  /\ pc[p] = "read"
  /\ found' = [found EXCEPT ![p] = defs[call[p].kind][call[p].id]]
  /\ Goto(p, "runlock")
  /\ UNCHANGED <<defs, mu, call, next, errs>>

KeepRLock(p) ==                                      \* fault: returns locked
  /\ pc[p] = "runlock"
  /\ Goto(p, "idle")
  /\ UNCHANGED <<defs, mu, call, next, errs, found>>

RUnlock(p) ==
  /\ pc[p] = "runlock"
  /\ readers' = readers \ {p}
  /\ Goto(p, "idle")
  /\ UNCHANGED <<defs, writer, parked, call, next, errs, found>>

(***************************************************************************)
(* AddResource(res) and AddResourceOverriding(res): addResource            *)
(***************************************************************************)
CallAdd(p) == Called(p, Adds, "lock")

Announce(p) ==
  /\ pc[p] = "lock"
  /\ writer = NoProc
  /\ writer' = p
  /\ Goto(p, "drain")
  /\ UNCHANGED <<defs, readers, parked, call, next, errs, found>>

Lock(p) ==
  /\ pc[p] = "drain"
  /\ readers = {}
  /\ Goto(p, "apply")
  /\ UNCHANGED <<defs, mu, call, next, errs, found>>

NeverReject(p, e) == FALSE                           \* fault: no exists check
RejectByName(p, e) ==                                \* fault: asks the wrong map
  ~call[p].override /\ \E kind \in Kinds : defs[kind][e.id] # Absent
Reject(p, e) == ~call[p].override /\ defs[e.kind][e.id] # Absent

AddEntry(p) ==
  /\ pc[p] = "apply"
  /\ next[p] <= Len(call[p].res)
  /\ LET e == call[p].res[next[p]] IN
       IF Reject(p, e)
         THEN /\ errs' = [errs EXCEPT ![p] = @ \cup {next[p]}]
              /\ UNCHANGED defs
         ELSE /\ defs' = [defs EXCEPT ![e.kind][e.id] = e.def]
              /\ UNCHANGED errs
  /\ next' = [next EXCEPT ![p] = @ + 1]
  /\ UNCHANGED <<mu, pc, call, found>>

UnlockIfClean(p) ==                                  \* fault: error path keeps mu
  /\ pc[p] = "apply"
  /\ next[p] > Len(call[p].res)
  /\ errs[p] = {}
  /\ writer' = NoProc
  /\ readers' = readers \cup parked
  /\ parked' = {}
  /\ pc' = [q \in Procs |-> IF q = p THEN "idle"
                            ELSE IF q \in parked THEN "read" ELSE pc[q]]
  /\ UNCHANGED <<defs, call, next, errs, found>>

Unlock(p) ==
  /\ pc[p] = "apply"
  /\ next[p] > Len(call[p].res)
  /\ writer' = NoProc
  /\ readers' = readers \cup parked
  /\ parked' = {}
  /\ pc' = [q \in Procs |-> IF q = p THEN "idle"
                            ELSE IF q \in parked THEN "read" ELSE pc[q]]
  /\ UNCHANGED <<defs, call, next, errs, found>>

-----------------------------------------------------------------------------
Next ==
  \E p \in Procs :
    \/ CallLookup(p) \/ RLock(p) \/ Park(p) \/ ReadMap(p) \/ RUnlock(p)
    \/ CallAdd(p) \/ Announce(p) \/ Lock(p) \/ AddEntry(p) \/ Unlock(p)

Spec == Init /\ [][Next]_vars

(* A goroutine inside a call keeps running; no one is obliged to call.     *)
(* Among the writers that wait for the mutex each gets it in the end:      *)
(* sync.Mutex hands over to the longest waiter once it has starved 1ms.    *)
InCall(p) ==
  RLock(p) \/ Park(p) \/ ReadMap(p) \/ RUnlock(p) \/ Lock(p) \/ AddEntry(p) \/ Unlock(p)

Fairness == \A p \in Procs : WF_vars(InCall(p)) /\ SF_vars(Announce(p))

FairSpec == Spec /\ Fairness

-----------------------------------------------------------------------------
(* No data race on the maps: the goroutine inside AddResource's loop is    *)
(* the only one inside any lock, and no reader is at a map while it        *)
(* writes.  bundle.go's mu is there for this.                              *)
NoDataRace ==
  \A p, q \in Procs :
    p # q /\ pc[p] = "apply" => pc[q] \notin {"apply", "read", "runlock"}

(* AddResource (without overriding) never replaces a definition that the   *)
(* bundle already had, whatever the other goroutines do, and no call ever  *)
(* removes one.                                                            *)
ReplacesOnlyByOverride ==
  \A kind \in Kinds, id \in Ids :
    defs[kind][id] # Absent /\ defs'[kind][id] # defs[kind][id] =>
      /\ defs'[kind][id] # Absent
      /\ writer \in Procs
      /\ call[writer].override

KeepsDefinitions == [][ReplacesOnlyByOverride]_vars

(* No deadlock: whoever waits, waits behind a goroutine that is inside the *)
(* lock or next to get it, and that does not wait itself.                  *)
Waits(p) ==
  \/ pc[p] = "parked"
  \/ pc[p] = "lock" /\ writer # NoProc
  \/ pc[p] = "drain" /\ readers # {}

Inside(p) == pc[p] \in {"read", "runlock", "drain", "apply"}

WaitsBehindHolder ==
  \A p \in Procs : Waits(p) => \E q \in Procs : Inside(q) /\ ~Waits(q)

(* Every call returns: no lookup waits for ever behind writers, no writer  *)
(* behind readers or other writers, although goroutines may go on calling. *)
EveryCallReturns == \A p \in Procs : pc[p] # "idle" ~> pc[p] = "idle"

(***************************************************************************)
(* The bundle implements BundleStore.  A lookup takes effect when it reads *)
(* the map; an addition takes effect as a whole when it has the lock, so   *)
(* the abstract maps already hold the entries that are still to come.      *)
(***************************************************************************)
Applying(p) == pc[p] = "apply"

defsView ==
  IF \E p \in Procs : Applying(p)
    THEN LET p == CHOOSE p \in Procs : Applying(p)
         IN  Applied(defs, call[p].res, next[p], call[p].override)
    ELSE defs

pcView ==
  [p \in Procs |->
     CASE pc[p] = "idle" -> "idle"
       [] pc[p] \in {"rlock", "parked", "read", "lock", "drain"} -> "called"
       [] pc[p] \in {"runlock", "apply"} -> "returning"]

errsView ==
  [p \in Procs |->
     IF Applying(p)
       THEN errs[p] \cup Rejected(defs, call[p].res, next[p], call[p].override)
       ELSE errs[p]]

Store == INSTANCE BundleStore WITH defs <- defsView, pc <- pcView, errs <- errsView

(* Every behaviour of the locked, entry-by-entry bundle is a behaviour of  *)
(* the atomic store: concurrent calls never see half a resource, AddResource *)
(* reports exactly the entries it refused, and the last (or first)         *)
(* definition wins as documented.                                          *)
ImplementsStore == Store!Spec
=============================================================================
