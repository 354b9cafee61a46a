----------------------------- MODULE Provenance -----------------------------
(***************************************************************************)
(* What is left of an arena's files in the match.json of a match, and the  *)
(* key two matches must share to be counted together                       *)
(* (controller/src/provenance.rs).  The files of an arena are the record   *)
(*   manifest   [id, category, fog, rest]: what arena.toml says            *)
(*   brief      the player's brief                                         *)
(*   artifacts  a function from the paths that the fog names to contents   *)
(*   verifiers  a function from the paths of its milestones to contents    *)
(* A digest is taken for what it is a digest of.                           *)
(***************************************************************************)
CONSTANT None

(* evaluation_manifest_digest: the category is presentation. *)
EvaluationManifest(manifest) == [manifest EXCEPT !.category = None]

PlayerBrief(files) == IF files.manifest.fog THEN files.brief ELSE None

PlayerArtifacts(files) == IF files.manifest.fog THEN files.artifacts ELSE <<>>

CompatibilityKey(files) ==
  <<files.manifest.id, EvaluationManifest(files.manifest), PlayerBrief(files),
    PlayerArtifacts(files), files.verifiers>>

(* write_provenance; adapters are recorded and are not part of the key. *)
MatchProvenance(files) ==
  [ manifest |-> files.manifest, brief |-> PlayerBrief(files),
    artifacts |-> PlayerArtifacts(files), verifiers |-> files.verifiers,
    key |-> CompatibilityKey(files) ]
=============================================================================
