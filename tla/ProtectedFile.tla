----------------------------- MODULE ProtectedFile -----------------------------
(***************************************************************************)
(* protectedfile.Replace as its clients see it: the new contents go to a   *)
(* private temporary file that is synced, renamed over the target, and the *)
(* directory is synced.  A file is what a reader finds now and the set of  *)
(* contents a crash may leave behind: a rename whose directory sync failed *)
(* may or may not survive.                                                 *)
(***************************************************************************)

File(v) == [now |-> v, crash |-> {v}]

\* What Replace(path, v) may do to file f and report: whether the rename
\* happened, and whether there was no error.  The rename may fail, the
\* directory sync may fail after it, the last check of the file's mode may
\* fail after both.
Replace(f, v) ==
    {[file |-> f, committed |-> FALSE, ok |-> FALSE],
     [file |-> [now |-> v, crash |-> f.crash \union {v}],
      committed |-> TRUE, ok |-> FALSE],
     [file |-> File(v), committed |-> TRUE, ok |-> FALSE],
     [file |-> File(v), committed |-> TRUE, ok |-> TRUE]}
=============================================================================
