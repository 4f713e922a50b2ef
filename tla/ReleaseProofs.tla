---------------------------- MODULE ReleaseProofs ---------------------------
(***************************************************************************)
(* What a reader may rely on, from the abstract promise alone.             *)
(***************************************************************************)
EXTENDS Release, TLAPS

(* A refresh in progress may adopt any release of its window, so those     *)
(* have to be complete as well.                                            *)
WindowsAreCommitted ==
  \A r \in Readers : \A seen \in window[r] : seen.version \in committed

PromiseInv ==
  /\ TypeOK
  /\ ReleasesAreCommitted
  /\ WindowsAreCommitted

(* The initial states satisfy the inductive invariant. *)
LEMMA PromiseInit == Init => PromiseInv
BY DEF Init, PromiseInv, TypeOK, ReleasesAreCommitted, WindowsAreCommitted

(* Every step preserves the inductive invariant. *)
LEMMA PromiseStep == PromiseInv /\ [Next]_vars => PromiseInv'
<1> SUFFICES ASSUME PromiseInv, [Next]_vars
             PROVE  PromiseInv'
  OBVIOUS
<1> USE NoneAssumption DEF PromiseInv, TypeOK, ReleasesAreCommitted,
        WindowsAreCommitted
<1>1. ASSUME NEW v \in Versions, Commit(v) PROVE PromiseInv'
  BY <1>1 DEF Commit
<1>2. ASSUME NEW new \in Refs, NEW watching \in SUBSET Readers,
             Supersede(new, watching)
      PROVE  PromiseInv'
  BY <1>2 DEF Supersede
<1>3. ASSUME NEW r \in Readers, Open(r) PROVE PromiseInv'
  BY <1>3 DEF Open
<1>4. ASSUME NEW r \in Readers, Close(r) PROVE PromiseInv'
  BY <1>4 DEF Close
<1>5. ASSUME NEW r \in Readers, Adopt(r) PROVE PromiseInv'
  BY <1>5 DEF Adopt
<1>6. ASSUME NEW r \in Readers, Restart(r) PROVE PromiseInv'
  BY <1>6 DEF Restart
<1>7. CASE UNCHANGED vars
  BY <1>7 DEF vars
<1> QED
  BY <1>1, <1>2, <1>3, <1>4, <1>5, <1>6, <1>7 DEF Next

(* No release that is current, or that anyone serves, is ever incomplete:  *)
(* what is committed stays committed, and adoption only takes releases     *)
(* that were current (bundle.py, refresh).                                 *)
THEOREM ReleasesStayCommitted == Spec => []ReleasesAreCommitted
<1>1. PromiseInv => ReleasesAreCommitted
  BY DEF PromiseInv
<1> QED
  BY PromiseInit, PromiseStep, <1>1, PTL DEF Spec
=============================================================================
