----------------------------- MODULE Workspace -----------------------------
(***************************************************************************)
(* The files a work package may touch (runtime.py): path validation        *)
(* against the package's glob patterns and the application of a file       *)
(* manifest to the workspace of a run.                                     *)
(*                                                                         *)
(* A path is a sequence of segments, a segment a sequence of name pieces   *)
(* (<<"main", ".py">>); its text has a "/" between segments.  A pattern is *)
(* a path with "*" or "[...]" among its pieces.  Letter case and "?" are   *)
(* left out, and so are symbolic links, disk errors and file contents      *)
(* beyond what tells two versions apart.                                   *)
(***************************************************************************)
EXTENDS Naturals, Sequences, SequencesExt

Path == Seq(Seq(STRING))

(* The text of a path; normpath of "a/.." is ".". *)
Joined(text, i, seg) == IF i = 1 THEN seg ELSE text \o <<"/">> \o seg

Text(path) ==
  LET text[i \in 0..Len(path)] ==
        IF i = 0 THEN <<".">> ELSE Joined(text[i - 1], i, path[i])
  IN text[Len(path)]

(* fnmatch: how much of the text the first j pieces of the pattern may stand
   for.  "*" stands for any text, slashes included, and "[id]", here for all
   such classes, for one of two letters, not for itself. *)
Classes == {"[id]"}
Letters(piece) == IF piece \in Classes THEN {"i", "d"} ELSE {piece}

Reached(text, before, piece) ==
  IF piece = "*" THEN {k \in 0..Len(text) : \E i \in before : i <= k}
  ELSE {k \in 1..Len(text) : k - 1 \in before /\ text[k] \in Letters(piece)}

Matches(text, pattern) ==
  LET reached[j \in 0..Len(pattern)] ==
        IF j = 0 THEN {0} ELSE Reached(text, reached[j - 1], pattern[j])
  IN Len(text) \in reached[Len(pattern)]

MatchesAny(path, patterns) == \E g \in patterns : Matches(Text(path), Text(g))

(* os.path.normpath of a relative path. *)
Climb(done, seg) ==
  IF seg \in {<<>>, <<".">>} THEN done
  ELSE IF seg = <<"..">> /\ done # <<>> /\ Last(done) # <<"..">> THEN Front(done)
  ELSE Append(done, seg)

Normalised(path) ==
  LET done[i \in 0..Len(path)] == IF i = 0 THEN <<>> ELSE Climb(done[i - 1], path[i])
  IN done[Len(path)]

(* Names no path may contain. *)
BlockedNames == {<<".git">>, <<".v6">>, <<"__pycache__">>}
ForbiddenReleaseNames ==
  {<<".agent">>, <<".git">>, <<".pytest_cache">>, <<"__pycache__">>, <<"b">>,
   <<"reports">>, <<"tmp">>, <<".v6">>, <<".v7">>, <<".v8">>}

(* An entry's path as it was asked for: absolute or not, then segments. *)
InsideRoot(path) == \A i \in DOMAIN path : path[i] # <<"..">>

CheckedRaw(entry) == entry.path
Checked(entry) == Normalised(entry.path)

(* _validate_path: no patterns at all allow every path. *)
ValidPath(entry, allowed, forbidden) ==
  /\ entry.path # <<>>
  /\ ~entry.absolute
  /\ LET path == Checked(entry) IN
     /\ InsideRoot(path)
     /\ \A i \in DOMAIN path : path[i] \notin BlockedNames \cup ForbiddenReleaseNames
     /\ allowed # {} => MatchesAny(path, allowed)
     /\ ~MatchesAny(path, forbidden)

-----------------------------------------------------------------------------
(* apply_file_manifest.  A tree has files, each with a content, and           *)
(* directories; the root, <<>>, is always one.                             *)

Actions == {"create", "upsert", "replace", "delete"}

Ancestors(path) == {SubSeq(path, 1, n) : n \in 0..Len(path) - 1}

Write(tree, path, content) ==
  [files |-> [p \in DOMAIN tree.files \cup {path} |->
                IF p = path THEN content ELSE tree.files[p]],
   dirs |-> tree.dirs]

Delete(tree, path) ==
  [files |-> [p \in DOMAIN tree.files \ {path} |-> tree.files[p]], dirs |-> tree.dirs]

(* mkdir(parents=True) of the parent fails below a file,
   Path(...).write_text on a directory. *)
BelowFile(tree, path) == Ancestors(path) \cap DOMAIN tree.files # {}

MakeParents(tree, path) ==
  [files |-> tree.files,
   dirs |-> IF BelowFile(tree, path) THEN tree.dirs ELSE tree.dirs \cup Ancestors(path)]

CanCreate(tree, path) == path \notin tree.dirs /\ ~BelowFile(tree, path)

(* What one entry does: the tree behind it, and whether it was applied. *)
Carried(entry, allowed, forbidden) ==
  entry.action \in Actions /\ ValidPath(entry, allowed, forbidden)

Applied(tree, entry, allowed, forbidden) ==
  LET path == Normalised(entry.path)
      done(t) == [tree |-> t, ok |-> TRUE]
      failed(t) == [tree |-> t, ok |-> FALSE] IN
  IF ~Carried(entry, allowed, forbidden) THEN failed(tree)
  ELSE IF entry.action = "delete" THEN
    IF path \in DOMAIN tree.files THEN done(Delete(tree, path)) ELSE failed(tree)
  ELSE IF entry.action = "replace" THEN
    IF path \in DOMAIN tree.files THEN done(Write(tree, path, entry.content)) ELSE failed(tree)
  ELSE IF CanCreate(tree, path)
    THEN done(Write(MakeParents(tree, path), path, entry.content))
    ELSE failed(MakeParents(tree, path))

(* An entry that is not applied leaves an error, and the next one follows. *)
StopAtError(ok) == ok
ContinueAfter(ok) == TRUE

Continued(r, entry, allowed, forbidden) ==
  IF r.stopped THEN r
  ELSE LET a == Applied(r.tree, entry, allowed, forbidden) IN
       [tree |-> a.tree,
        touched |-> IF a.ok THEN Append(r.touched, entry.path) ELSE r.touched,
        errors |-> IF a.ok THEN r.errors ELSE r.errors + 1,
        stopped |-> ~ContinueAfter(a.ok)]

Begun(tree) == [tree |-> tree, touched |-> <<>>, errors |-> 0, stopped |-> FALSE]

ApplyManifest(tree, files, allowed, forbidden) ==
  LET r[i \in 0..Len(files)] ==
        IF i = 0 THEN Begun(tree) ELSE Continued(r[i - 1], files[i], allowed, forbidden)
  IN r[Len(files)]

-----------------------------------------------------------------------------
(* What apply_file_manifest promises.                                       *)

(* Only files change whose path, as it stands in the workspace, matches an
   allowed pattern and no forbidden one and contains no blocked name. *)
MayChange(path, allowed, forbidden) ==
  /\ allowed # {} => MatchesAny(path, allowed)
  /\ ~MatchesAny(path, forbidden)
  /\ \A i \in DOMAIN path : path[i] \notin BlockedNames \cup ForbiddenReleaseNames \cup {<<"..">>}

Changed(before, after) ==
  (DOMAIN before \cup DOMAIN after)
    \ {p \in DOMAIN before \cap DOMAIN after : before[p] = after[p]}

ChangesAllowed(tree, files, allowed, forbidden) ==
  \A p \in Changed(tree.files, ApplyManifest(tree, files, allowed, forbidden).tree.files) :
    MayChange(p, allowed, forbidden)

(* The files of a manifest, with no path of one below another. *)
NoneBelowAnother(files) ==
  \A i, j \in DOMAIN files :
    LET p == Normalised(files[i].path)
        q == Normalised(files[j].path) IN p = q \/ ~IsPrefix(p, q)

Carrying(files, allowed, forbidden) ==
  {entry \in ToSet(files) : Carried(entry, allowed, forbidden)}
Paths(entries) == {Normalised(entry.path) : entry \in entries}

(* A job cut short behind any entry of its manifest is executed again with
   another manifest, because implementation.execute asks the model again.
   What the first one wrote shows behind the second only at paths that the
   second neither creates nor deletes. *)
RepeatConverges(tree, first, second, allowed, forbidden) ==
  \A n \in 0..Len(first) :
    LET begun == SubSeq(first, 1, n)
        cut == ApplyManifest(tree, begun, allowed, forbidden).tree
        again == ApplyManifest(cut, second, allowed, forbidden).tree.files
        once == ApplyManifest(tree, second, allowed, forbidden).tree.files
        settling == {e \in Carrying(second, allowed, forbidden) : e.action # "replace"} IN
    Changed(once, again) \subseteq Paths(Carrying(begun, allowed, forbidden)) \ Paths(settling)

(* A file is no directory and lies below none of the files. *)
IsFileTree(tree) ==
  \A p \in DOMAIN tree.files :
    p \notin tree.dirs /\ Ancestors(p) \cap DOMAIN tree.files = {}
=============================================================================
