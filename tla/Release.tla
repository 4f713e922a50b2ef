------------------------------- MODULE Release ------------------------------
(***************************************************************************)
(* What publication promises to the readers of a bundle, whatever happens  *)
(* between publishers: snapshots are committed once and for all, the       *)
(* release reference only ever names a committed snapshot and only moves   *)
(* along allowed transitions, and a replica that refreshes adopts a        *)
(* release that was current at some moment of that refresh.                *)
(***************************************************************************)
EXTENDS ReleaseRef

CONSTANT Readers

VARIABLES committed,  \* versions whose snapshot is complete
          released,   \* the release reference
          window,     \* per reader: the releases current since its refresh began
          adopted     \* per reader: the release it serves

vars == <<committed, released, window, adopted>>

TypeOK ==
  /\ committed \subseteq Versions
  /\ released \in Refs \cup {NoRef}
  /\ window \in [Readers -> SUBSET Refs]
  /\ adopted \in [Readers -> Refs \cup {NoRef}]

Init ==
  /\ committed = {}
  /\ released = NoRef
  /\ window = [r \in Readers |-> {}]
  /\ adopted = [r \in Readers |-> NoRef]

(* A snapshot becomes complete. *)
Commit(v) ==
  /\ committed' = committed \cup {v}
  /\ UNCHANGED <<released, window, adopted>>

(* The reference moves to a release whose snapshot is complete; every      *)
(* refresh in progress may see it.                                         *)
Supersede(new, watching) ==
  /\ new.version \in committed
  /\ TransitionAllowed(released, new)
  /\ released' = new
  /\ window' = [r \in Readers |->
                  IF r \in watching THEN window[r] \cup {new} ELSE window[r]]
  /\ UNCHANGED <<committed, adopted>>

(* A refresh begins, ends without a change, or fails. *)
Open(r) ==
  /\ window' = [window EXCEPT ![r] = {released} \ {NoRef}]
  /\ UNCHANGED <<committed, released, adopted>>

Close(r) ==
  /\ window' = [window EXCEPT ![r] = {}]
  /\ UNCHANGED <<committed, released, adopted>>

(* A refresh ends by serving a release that was current while it ran. *)
Adopt(r) ==
  /\ \E new \in window[r] : adopted' = [adopted EXCEPT ![r] = new]
  /\ window' = [window EXCEPT ![r] = {}]
  /\ UNCHANGED <<committed, released>>

(* The process dies and forgets what it served. *)
Restart(r) ==
  /\ adopted' = [adopted EXCEPT ![r] = NoRef]
  /\ window' = [window EXCEPT ![r] = {}]
  /\ UNCHANGED <<committed, released>>

Next ==
  \/ \E v \in Versions : Commit(v)
  \/ \E new \in Refs, watching \in SUBSET Readers : Supersede(new, watching)
  \/ \E r \in Readers : Open(r) \/ Close(r) \/ Adopt(r) \/ Restart(r)

Spec == Init /\ [][Next]_vars

(* Every release anyone serves, and the current one, names a snapshot that *)
(* is complete, so fetching it cannot fail for lack of content.            *)
ReleasesAreCommitted ==
  /\ released # NoRef => released.version \in committed
  /\ \A r \in Readers : adopted[r] # NoRef => adopted[r].version \in committed
=============================================================================
