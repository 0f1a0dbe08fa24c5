---------------------------- MODULE MCMetadataScan ----------------------------
(***************************************************************************)
(* A root with a file, a link and a directory, which holds a file itself.  *)
(***************************************************************************)
EXTENDS MetadataScan, TLC

CONSTANTS root, dir, f1, f2, link

Tree      == {root, dir, f1, f2, link}
TreeDirs  == {root, dir}
ParentOf  == (dir :> root) @@ (f1 :> root) @@ (f2 :> dir) @@ (link :> root)
TreeLinks == {link}
AllFaults  == {"denied", "opendir", "iterate", "stat", "locked", "kill"}
AllChanges == {"create", "remove", "resize"}
===============================================================================
