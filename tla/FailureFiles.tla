---------------------------- MODULE FailureFiles ----------------------------
(***************************************************************************)
(* The files that record a mismatch (writeCompareFailureFiles and          *)
(* writeUniqueCompareFailureFile in dbHelper/compare_results.go), in the   *)
(* directory they are written to.  A path is what makes a file name: the   *)
(* name of the pair, the side and the numeric suffix.  A file has a path   *)
(* and the comparison whose rows it holds, and whatever is written at a    *)
(* path takes the place of what was there.  The two files of a comparison  *)
(* are written one after the other under compareFailureFileMu.             *)
(***************************************************************************)
EXTENDS Integers

CONSTANT NoWriter      \* compareFailureFileMu is free

VARIABLES files,       \* the failure files in the output directory
          fileMu       \* the holder of compareFailureFileMu

\* The content of a file until its write has succeeded.
Incomplete == [item |-> 0, run |-> 0]

File(path, by) == [name |-> path.name, side |-> path.side, suffix |-> path.suffix,
                   by |-> by]
At(path) == {f \in files : /\ f.name = path.name /\ f.side = path.side
                           /\ f.suffix = path.suffix}
Exists(path) == At(path) # {}
Put(path, by) == files' = (files \ At(path)) \union {File(path, by)}

\* Wrong variant: no mutual exclusion.
LockFilesAnyway(w) == fileMu' = w

LockFiles(w) == fileMu = NoWriter /\ fileMu' = w
UnlockFiles == fileMu' = NoWriter

\* Wrong variant: os.Create, which truncates a file that is there.
CreateOrTruncate(path) == Put(path, Incomplete)

\* os.OpenFile with O_CREATE|O_EXCL; WriteString and Close; os.Remove.
CreateExclusive(path) == ~Exists(path) /\ Put(path, Incomplete)
WriteContent(path, by) == Put(path, by)
RemoveFile(path) == files' = files \ At(path)

-----------------------------------------------------------------------------
\* No two of the files have the same file name.
DistinctNames(F) ==
  \A f, g \in F : f.name = g.name /\ f.side = g.side /\ f.suffix = g.suffix => f = g

\* Nobody has removed a file below another one.
NoGap(F) ==
  \A f \in F : \A k \in 0..(f.suffix - 1) :
    \E g \in F : g.name = f.name /\ g.side = f.side /\ g.suffix = k

InStep(F) ==
  \A e1, e2, a1, a2 \in F :
    (/\ e1.side = "expected" /\ e2.side = "expected"
     /\ a1.side = "actual" /\ a2.side = "actual"
     /\ {e1.by, e2.by} \intersect {Incomplete} = {}
     /\ e1.by = a1.by /\ e2.by = a2.by
     /\ e1.name = e2.name /\ a1.name = e1.name /\ a2.name = e1.name)
      => (e1.suffix < e2.suffix <=> a1.suffix < a2.suffix)

\* The mutex keeps the two sides in step: whichever comparison has the smaller
\* expected suffix has the smaller actual suffix, even after failed writes.
SidesInStep == InStep(files)
=============================================================================
