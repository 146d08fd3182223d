---------------------------- MODULE ConfigsetPatch ----------------------------
(***************************************************************************)
(* shadow/configset_patcher.py: the text files of a configset (synonyms,   *)
(* stopwords) and how a source file is worked into one.  A line is a       *)
(* number, 0 is a blank one; a path is the file that it leads to, or       *)
(* Outside where it leads out of the configset.                            *)
(***************************************************************************)
EXTENDS Sublists

ConfigsetOps == {"schema.synonym.update", "schema.stopwords.update"}
UpdateModes == {"replace", "patch_append", "patch_merge"}

(* A key of a changeset that is not there, one that is null, and one with  *)
(* an empty string.                                                        *)
NoKey == "no key"
Null == "null"
Blank == ""

Outside == "outside"

ReadLines(files, path) == IF path \in DOMAIN files THEN files[path] ELSE <<>>
WriteLines(files, path, lines) ==
  [p \in DOMAIN files \cup {path} |-> IF p = path THEN lines ELSE files[p]]

Kept(lines) == Omitting(lines, {0})
DedupeMerge(existing, patch) ==
  FoldLeft(LAMBDA merged, line : IF line \in ToSet(merged) THEN merged ELSE Append(merged, line),
           <<>>, existing \o patch)

(* Mutant: a merge looks for the new lines only among the old ones.        *)
ApplyModeOnce(existing, patch, mode) ==
  CASE mode = "replace" -> Kept(patch)
    [] mode = "patch_append" -> Kept(existing) \o Kept(patch)
    [] mode = "patch_merge" ->
         Kept(existing) \o SelectSeq(Kept(patch), LAMBDA line : line \notin ToSet(existing))

ApplyMode(existing, patch, mode) ==
  CASE mode = "replace" -> Kept(patch)
    [] mode = "patch_append" -> Kept(existing) \o Kept(patch)
    [] mode = "patch_merge" -> DedupeMerge(Kept(existing), Kept(patch))

-----------------------------------------------------------------------------
(* The target files of the changes, one after the other, each with the     *)
(* mode and the source that hold for it.  A key of the file that is there  *)
(* hides that of the change, whatever it has.  A change without any file   *)
(* is one step, which raises.                                              *)
NoTarget == [path |-> NoKey, mode |-> NoKey, source_file |-> NoKey]

TargetsOf(change) ==
  LET files == IF change.files = <<>> THEN <<NoTarget>> ELSE change.files
      general == IF change.mode \in {NoKey, Blank} THEN "replace" ELSE change.mode
      or(own, default) == IF own # NoKey THEN own ELSE default
  IN  [i \in DOMAIN files |->
         [path    |-> files[i].path,
          mode    |-> or(files[i].mode, general),
          general |-> general,
          source  |-> or(files[i].source_file, change.source_file)]]

PatchSteps(changes) ==
  LET patches == Within(changes, {change \in ToSet(changes) : change.op \in ConfigsetOps})
  IN  FlattenSeq([i \in DOMAIN patches |-> TargetsOf(patches[i])])

(* A null mode is the string None by now, which is no mode either.         *)
PatchRaises(sources, step) ==
  \/ ~({step.general, step.mode} \subseteq UpdateModes)
  \/ step.source \notin DOMAIN sources \ {NoKey, Null, Blank}
  \/ step.path \in {NoKey, Null, Blank}

PatchFile(files, sources, step) ==
  WriteLines(files, step.path, ApplyMode(ReadLines(files, step.path), sources[step.source], step.mode))
=============================================================================
