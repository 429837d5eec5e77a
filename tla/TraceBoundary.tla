---------------------------- MODULE TraceBoundary ----------------------------
(***************************************************************************)
(* controller/boundary.py: what a finished attempt is told about writes    *)
(* outside its roots, from two sources: the trees below the monitored      *)
(* roots, compared before and after, and the strace log of the agent's     *)
(* file system calls (-e trace=file: close and dup are not among them).    *)
(*                                                                         *)
(* A path is abstracted to the place it lies in.  To tell where a relative *)
(* path leads, the parser keeps, for each task number strace -f puts in    *)
(* front of a line, a table of the directory descriptors whose path it has *)
(* seen.                                                                   *)
(***************************************************************************)
EXTENDS Naturals

\* The run root and repo cache; the scratch roots the trace may show; the
\* production configuration; the parent of the run root; /dev, /proc and /sys;
\* any other place.
Place        == {"work", "tmp", "config", "sibling", "device", "elsewhere"}
AllowedRoot  == {"work"}
TraceAllowed == {"tmp"}
Protected    == {"config"}
Monitored    == {"config", "sibling"}
Ignored      == {"device"}

Unknown == "unknown"

\* A path as a call names it: absolute, or relative to a directory descriptor
\* or to the working directory.  place is where it leads, which the parser
\* does not see in a relative path.
Absolute(p)     == [how |-> "abs", fd |-> 0, place |-> p]
RelativeTo(d, p) == [how |-> "fd", fd |-> d, place |-> p]
RelativeCwd(p)  == [how |-> "cwd", fd |-> 0, place |-> p]

\* _resolve_trace_dirfd: AT_FDCWD and unknown descriptors have no parent.  The
\* table is that of the calling task.
ParentOf(table, path) == IF path.how = "fd" THEN table[path.fd] ELSE Unknown

\* A successful open of a directory that returned fd.  A relative path with
\* an unknown parent leaves the entry of fd as it was.
TableAfterOpenDir(table, fd, path) ==
  LET dir == IF path.how = "abs" THEN path.place ELSE ParentOf(table, path)
  IN IF dir = Unknown THEN table ELSE [table EXCEPT ![fd] = dir]

\* Mutant of TraceFinding: a relative path without a known parent is passed over.
TraceFindingTrusting(table, path) ==
  LET seen == IF path.how = "abs" THEN path.place ELSE ParentOf(table, path)
  IN IF seen = Unknown THEN {}
     ELSE IF path.how = "abs" /\ seen \in Ignored THEN {}
     ELSE {seen} \ (AllowedRoot \cup TraceAllowed)

\* What one write-like call adds to trace_outside_writes.  An absolute path
\* with one of the ignored prefixes is passed over; a relative one is not.
TraceFinding(table, path) ==
  LET seen == IF path.how = "abs" THEN path.place ELSE ParentOf(table, path)
  IN IF seen = Unknown THEN {"RELATIVE"}
     ELSE IF path.how = "abs" /\ seen \in Ignored THEN {}
     ELSE {seen} \ (AllowedRoot \cup TraceAllowed)

\* Changes below the monitored roots that are neither allowed nor protected.
OutsideChanges(changed) == (changed \cap Monitored) \ (AllowedRoot \cup Protected)

\* The verdict; the real configuration requires that a trace is there (traced).
ProofPasses(changed, traced, findings) ==
  /\ changed \cap Protected = {}
  /\ OutsideChanges(changed) = {}
  /\ traced /\ findings = {}
============================================================================
