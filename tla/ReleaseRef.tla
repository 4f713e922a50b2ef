----------------------------- MODULE ReleaseRef -----------------------------
(***************************************************************************)
(* What a publisher can observe in a Dag source, and the release reference *)
(* (refs/<bundle>/latest.json) that it derives from an observation.        *)
(*                                                                         *)
(* A source observation is abstracted to its signature, a member of Sigs.  *)
(* VersionOf is the content address that build_bundle_version_manifest     *)
(* computes for the observed tree; InventoryOf and MarkerOf are the parts  *)
(* an object-store adapter hashes into the signature: the object listing   *)
(* and the deployment marker.  FilesOf lists a manifest's entries.         *)
(***************************************************************************)

CONSTANTS Sigs, Versions, Files, Identities, Inventories, Markers,
          TypeOf,             \* per source: the type of its adapter
          VersionOf, InventoryOf, MarkerOf, FilesOf,
          TracksSource,       \* the adapter writes "source" into the reference
          MarkerConfigured,   \* deployment_marker is set
          NoRef,              \* there is no latest.json
          NoSource            \* the reference carries no "source" member

SourceTypes == {"local", "s3", "gcs"}

(* An identity stands for a source of one type: bucket, prefix, endpoint.  *)
Sources == [identity : Identities, sig : Sigs]

(* The payload of latest.json, reduced to what decisions depend on. *)
Refs == [version : Versions, source : Sources \cup {NoSource}]

ASSUME SourceAssumption ==
  /\ TypeOf \in [Identities -> SourceTypes]
  /\ VersionOf \in [Sigs -> Versions]
  /\ InventoryOf \in [Sigs -> Inventories]
  /\ MarkerOf \in [Sigs -> Markers]
  /\ FilesOf \in [Versions -> SUBSET Files]
  /\ TracksSource \in BOOLEAN
  /\ MarkerConfigured \in BOOLEAN

ASSUME NoneAssumption ==
  /\ NoRef \notin Refs
  /\ NoSource \notin Sources

(* The reference a publisher of source i writes for the observation s.  An *)
(* object-store adapter records the source in it, a local one does not.    *)
RefFor(i, s) ==
  [version |-> VersionOf[s],
   source  |-> IF TracksSource THEN [identity |-> i, sig |-> s] ELSE NoSource]

(* Whether a release may be replaced.  One that an adapter of another type *)
(* has recorded is replaced unseen: its identity is not looked at, and no  *)
(* two types write an observation or a marker alike.  Of its own type the  *)
(* source must stay the same one and, with a deployment marker, objects    *)
(* change only together with the marker.                                   *)
SameType(i, j) == TypeOf[i] = TypeOf[j]

TransitionAllowed(old, new) ==
  /\ old # NoRef /\ old.source # NoSource /\ new.source # NoSource
  /\ SameType(old.source.identity, new.source.identity)
  => /\ old.source.identity = new.source.identity
     /\ \/ ~MarkerConfigured
        \/ InventoryOf[old.source.sig] = InventoryOf[new.source.sig]
        \/ MarkerOf[old.source.sig] # MarkerOf[new.source.sig]
=============================================================================
