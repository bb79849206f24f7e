------------------------------ MODULE VfsPath ------------------------------
(***************************************************************************)
(* Path names as the bucketfs code sees them, and the two normalisations  *)
(* it applies: filepath.Clean (every store operation, Lstat, the fluent   *)
(* setup calls) and vfs.CleanPath of src/fileutil.go (Stat and the        *)
(* symlink dereference, through findNode).                                *)
(*                                                                         *)
(* A path is abstracted to the features the two normalisations treat      *)
(* differently:                                                           *)
(*   ws    - leading white space, e.g. " /a";                             *)
(*   form  - "root"  for "/<leaf>",                                        *)
(*           "tilde" for "~/<leaf>",                                       *)
(*           "home"  for "<home dir>/<leaf>", what "~/<leaf>" expands to;  *)
(*           "blank" for a name of white space only, e.g. " ";             *)
(*           "cwd"   for ".", what CleanPath makes of a blank name;        *)
(*   dot   - a redundant trailing "/." element, e.g. "/a/.";              *)
(*   leaf  - the rest of the name, an uninterpreted model value.          *)
(***************************************************************************)
CONSTANT Leaves

Path == [ws : BOOLEAN, form : {"root", "tilde", "home", "blank", "cwd"}, dot : BOOLEAN, leaf : Leaves]

(* filepath.Clean: drops "." elements.  It neither trims white space (a   *)
(* leading blank is part of the first element) nor knows about "~".       *)
Clean(p) == [p EXCEPT !.dot = FALSE]

(* vfs.CleanPath: strings.Trim(path, " \t"), then filepath.Clean, then a  *)
(* leading "~/" is replaced by the user's home directory.                  *)
CleanPath(p) ==
    LET trimmed == [Clean(p) EXCEPT !.ws = FALSE]
    IN  CASE trimmed.form = "tilde" -> [trimmed EXCEPT !.form = "home"]
          [] trimmed.form = "blank" -> [trimmed EXCEPT !.form = "cwd"]
          [] OTHER                  -> trimmed

(* strings.Trim(name, " \t") is empty *)
Blank(p) == p.form = "blank"
=============================================================================
