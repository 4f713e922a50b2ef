--------------------------- MODULE StabilityHistory -------------------------
(***************************************************************************)
(* Publication with a record of the past, to state what the stability      *)
(* period is for.  The record never influences a step.                     *)
(***************************************************************************)
EXTENDS Publication

VARIABLES ripe,    \* the observations that were the shared candidate, and old enough
          first,   \* per observation that ever was the candidate: its first timestamp
          looked,  \* per replica: how long ago it prepared its observation
          agreed,  \* per observation: how long ago the last replica looked that
                   \* then took it for the shared candidate
          settled  \* the same, without what was agreed to in passing

historyVars == <<ripe, first, looked, agreed, settled>>

HistoryInit ==
  /\ Init
  /\ ripe = {}
  /\ first = [o \in {} |-> 0]
  /\ looked = [r \in Replicas |-> Stability]
  /\ agreed = [o \in Sources |-> Stability]
  /\ settled = [o \in Sources |-> Stability]

Observation(r) == [identity |-> IdentityOf[r], sig |-> prep[r]]

Recorded(c) == [identity |-> c.identity, sig |-> c.sig]

(* Replica r goes on with what it prepared as the shared candidate: it has *)
(* put it there or found it there, either with the publication lock or, a  *)
(* confirmed replica, by looking at the candidate without it.              *)
AgreesUnlocked(r) == pc[r] = "ensure" /\ pc'[r] = "fastPath"
Agrees(r) ==
  \/ pc[r] \in SyncLabels \ {"ready"} /\ pc'[r] \in {"ready", "fastPath"}
  \/ AgreesUnlocked(r)

(* A replica that looks without the lock does not stop another one which   *)
(* has already confirmed the source and is about to replace the candidate. *)
InPassing(r) == AgreesUnlocked(r) /\ \E q \in Replicas : pc[q] = "writeCandidate"
Settles(r) == Agrees(r) /\ ~InPassing(r)

(* A replica looks when it prepares the source; that is of interest until  *)
(* its observation has been agreed to or dropped.                          *)
AgeOfLook(r) ==
  CASE pc[r] = "prepare" /\ pc'[r] # "prepare" -> 0
    [] pc'[r] \in {"lockCandidate", "ensure"} \cup (SyncLabels \ {"ready"})
         -> IF Tick THEN Older(looked[r]) ELSE looked[r]
    [] OTHER -> Stability

(* The age of the last agreement to o, after a step in which the replicas  *)
(* agreeing agree to what they prepared.                                   *)
AgeOfAgreement(age_o, o, agreeing) ==
  LET looks == {looked[r] : r \in {q \in agreeing : Observation(q) = o}}
      before == IF Tick THEN Older(age_o) ELSE age_o
  IN  IF \E l \in looks : l < before THEN CHOOSE l \in looks : TRUE ELSE before

RecordHistory ==
  /\ ripe' = IF cand' # NoCand /\ cand'.age = Stability
               THEN ripe \cup {Recorded(cand')}
               ELSE ripe
  /\ first' = [o \in DOMAIN first \cup {Recorded(c) : c \in {cand'} \ {NoCand}} |->
                 IF o \in DOMAIN first THEN IF Tick THEN Older(first[o]) ELSE first[o]
                                       ELSE cand'.age]
  /\ looked' = [r \in Replicas |-> AgeOfLook(r)]
  /\ agreed' = [o \in Sources |->
                  AgeOfAgreement(agreed[o], o, {r \in Replicas : Agrees(r)})]
  /\ settled' = [o \in Sources |->
                   AgeOfAgreement(settled[o], o, {r \in Replicas : Settles(r)})]

HistorySpec == HistoryInit /\ [][Next /\ RecordHistory]_<<vars, historyVars>>

(* No replica, however often it restarts and whatever it has confirmed     *)
(* before, releases an observation that has never been the shared          *)
(* candidate for a whole stability period.  That takes the lock: without   *)
(* it the candidate can be replaced between the last reading of it and the *)
(* reading of the clock that its timestamp is compared with.               *)
OnlyRipeReleases ==
  [][\A r \in Replicas :
       pc[r] = "putRef" /\ ref' # ref /\ pc'[r] # "putRef"
         => Observation(r) \in ripe]_<<vars, historyVars>>

(* On every kind of root a stability period passes between the first time  *)
(* that a replica recorded an observation as the candidate and its release,*)
(* whoever releases it and whatever became of the candidate meanwhile.     *)
NoEarlyRelease ==
  [][\A r \in Replicas :
       pc[r] = "putRef" /\ ref' # ref /\ pc'[r] # "putRef"
         => Observation(r) \in DOMAIN first /\ first[Observation(r)] >= Stability
    ]_<<vars, historyVars>>

(* What the design claims of the candidate: it never goes back to something*)
(* older.  Whoever agreed to a different observation looked at the source  *)
(* before the candidate's timestamp, so a delayed replica does not         *)
(* reinstate an old observation and no timestamp survives a source revert. *)
(* The code does not keep it, on any kind of root: a replica that has      *)
(* confirmed the source and is delayed writes its observation although the *)
(* source has been reverted and another replica has found the old          *)
(* candidate to be right, without the lock and without a trace.            *)
CandidateIsNewest ==
  cand # NoCand =>
    \A o \in Sources : o # Recorded(cand) => agreed[o] >= cand.age

(* What is left of it under the lock: the candidate is the newest          *)
(* observation agreed to, but for an agreement made without the lock while *)
(* the write of a replica that had confirmed the source was pending.  Every*)
(* other revert that a replica notices ends the life of the candidate's    *)
(* timestamp, so a confirmed replica must not skip the comparison with it. *)
NewestButInPassing ==
  cand # NoCand =>
    \A o \in Sources : o # Recorded(cand) => settled[o] >= cand.age

(* An observation that its publisher had not confirmed before is released  *)
(* only if no observation of anything else that was made within the        *)
(* stability period was agreed to, other than without the lock while the   *)
(* write of a replica that had confirmed the source was pending.           *)
ReleaseWasStable ==
  [][\A r \in Replicas :
       /\ pc[r] = "putRef" /\ ref' # ref /\ pc'[r] # "putRef"
       /\ NeedsStability(r)
       => \A o \in Sources \ {Observation(r)} : settled[o] >= Stability
    ]_<<vars, historyVars>>
=============================================================================
