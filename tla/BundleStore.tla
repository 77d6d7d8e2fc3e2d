----------------------------- MODULE BundleStore -----------------------------
(***************************************************************************)
(* What a Bundle promises to the goroutines that share it (bundle.go):     *)
(* Message, lookupTerm, AddResource and AddResourceOverriding take effect  *)
(* atomically, each at one instant between its call and its return, and    *)
(* adding a resource is all or nothing to the lookups around it.           *)
(***************************************************************************)
EXTENDS Entries

CONSTANTS Procs,      \* goroutines
          Ids,        \* message and term names
          Defs,       \* parsed messages and terms
          Resources   \* parsed resources

VARIABLES defs,       \* Bundle.messages and Bundle.terms
          pc,         \* where each goroutine is in its call
          call,       \* the call's parameters
          errs,       \* the positions of the entries the call rejected
          found       \* what a lookup found
vars == <<defs, pc, call, errs, found>>

Lookups == [op : {"lookup"}, kind : Kinds, id : Ids]
Adds    == [op : {"add"}, res : Resources, override : BOOLEAN]

Init ==
  /\ defs = [kind \in Kinds |-> [id \in Ids |-> Absent]]
  /\ pc = [p \in Procs |-> "idle"]
  /\ call \in [Procs -> Lookups]
  /\ errs = [p \in Procs |-> {}]
  /\ found = [p \in Procs |-> Absent]

Invoke(p) ==
  /\ pc[p] = "idle"
  /\ \E c \in Lookups \cup Adds : call' = [call EXCEPT ![p] = c]
  /\ pc' = [pc EXCEPT ![p] = "called"]
  /\ errs' = [errs EXCEPT ![p] = {}]
  /\ found' = [found EXCEPT ![p] = Absent]
  /\ UNCHANGED defs

Lookup(p) ==
  /\ pc[p] = "called"
  /\ call[p].op = "lookup"
  /\ found' = [found EXCEPT ![p] = defs[call[p].kind][call[p].id]]
  /\ pc' = [pc EXCEPT ![p] = "returning"]
  /\ UNCHANGED <<defs, call, errs>>

Add(p) ==
  /\ pc[p] = "called"
  /\ call[p].op = "add"
  /\ defs' = Applied(defs, call[p].res, 1, call[p].override)
  /\ errs' = [errs EXCEPT ![p] = Rejected(defs, call[p].res, 1, call[p].override)]
  /\ pc' = [pc EXCEPT ![p] = "returning"]
  /\ UNCHANGED <<call, found>>

Return(p) ==
  /\ pc[p] = "returning"
  /\ pc' = [pc EXCEPT ![p] = "idle"]
  /\ UNCHANGED <<defs, call, errs, found>>

Next == \E p \in Procs : Invoke(p) \/ Lookup(p) \/ Add(p) \/ Return(p)

Spec == Init /\ [][Next]_vars
=============================================================================
