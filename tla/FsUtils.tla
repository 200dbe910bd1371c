------------------------------- MODULE FsUtils -------------------------------
(***************************************************************************)
(* The path and filesystem helpers of shared/src/filesystem/utils.cpp, as  *)
(* pure operators over an abstract host filesystem.                        *)
(*                                                                         *)
(* A location on the host is an absolute path held as the sequence of its  *)
(* names below "/" (<<>> is "/" itself).  The filesystem is two sets of    *)
(* locations: the directories and the regular files.  There are no         *)
(* symbolic links and no permissions, so the kernel resolves "." and ".."  *)
(* lexically and every operation the code asks for is granted.             *)
(*                                                                         *)
(* A path as a std::filesystem::path value (what a request carries, what   *)
(* a session stores) is a record [abs, segs]: whether it starts at "/",    *)
(* and its elements, which may include "." and "..".  The empty string is  *)
(* [abs |-> FALSE, segs |-> <<>>].                                         *)
(***************************************************************************)
EXTENDS Naturals, Sequences, SequencesExt

Path(s) == [abs : BOOLEAN, segs : Seq(s)]

EmptyPath == [abs |-> FALSE, segs |-> <<>>]

IsEmpty(p) == p = EmptyPath

\* The directory holding a location (the location "/" has none).
Parent(l) == SubSeq(l, 1, Len(l) - 1)

\* Every location from the first name below "/" down to l itself.
PathPrefixes(l) == {SubSeq(l, 1, j) : j \in 1..Len(l)}

\* Location p lies in the subtree rooted at location l (l itself included).
Within(l, p) == IsPrefix(l, p)

(***************************************************************************)
(* path::lexically_normal for an absolute path: "." is dropped, ".."       *)
(* removes the name before it and is dropped at "/".                       *)
(***************************************************************************)
LexNormalAbs(segs) ==
  LET f[i \in 0..Len(segs)] ==
        IF i = 0 THEN <<>>
        ELSE CASE segs[i] = "."  -> f[i - 1]
               [] segs[i] = ".." -> Parent(f[i - 1])
               [] OTHER          -> Append(f[i - 1], segs[i])
  IN  f[Len(segs)]

(***************************************************************************)
(* path::lexically_normal for a relative path: a ".." that has no name     *)
(* before it is kept; a non-empty path that normalises to nothing is ".".  *)
(***************************************************************************)
LexNormalRel(segs) ==
  LET f[i \in 0..Len(segs)] ==
        IF i = 0 THEN <<>>
        ELSE CASE segs[i] = "." -> f[i - 1]
               [] segs[i] = ".." /\ f[i - 1] # <<>> /\ Last(f[i - 1]) # ".."
                     -> Parent(f[i - 1])
               [] OTHER -> Append(f[i - 1], segs[i])
  IN  IF segs # <<>> /\ f[Len(segs)] = <<>> THEN <<".">> ELSE f[Len(segs)]

(***************************************************************************)
(* The location a system call on path p reaches, a relative path being     *)
(* taken from the process working directory cwd.                           *)
(***************************************************************************)
Resolve(cwd, p) == LexNormalAbs(IF p.abs THEN p.segs ELSE cwd \o p.segs)

PathExists(cwd, dirs, files, p) ==
  ~IsEmpty(p) /\ Resolve(cwd, p) \in dirs \cup files

\* fsutils::is_directory and fsutils::is_file (std::filesystem::is_*).
IsDirectory(cwd, dirs, p) == ~IsEmpty(p) /\ Resolve(cwd, p) \in dirs
IsFile(cwd, files, p)     == ~IsEmpty(p) /\ Resolve(cwd, p) \in files

(***************************************************************************)
(* fsutils::normalize: std::filesystem::weakly_canonical.  It walks the    *)
(* elements of p while the path built so far exists and canonicalises     *)
(* that part, then appends the rest and normalises lexically.  When not    *)
(* even the first element of a relative path exists, nothing is           *)
(* canonicalised and the result stays relative.                            *)
(***************************************************************************)
Normalize(cwd, dirs, files, p) ==
  IF p.abs \/ (p.segs # <<>> /\
               PathExists(cwd, dirs, files, [abs |-> FALSE, segs |-> <<p.segs[1]>>]))
  THEN [abs |-> TRUE,  segs |-> Resolve(cwd, p)]
  ELSE [abs |-> FALSE, segs |-> LexNormalRel(p.segs)]

\* The elements a path iterator yields: "/" first for an absolute path.
Elements(p) == IF p.abs THEN <<"/">> \o p.segs ELSE p.segs

(***************************************************************************)
(* fsutils::is_subpath(sub, base) as defined in utils.cpp: TRUE iff the    *)
(* elements of normalize(base) are a prefix of those of normalize(sub).    *)
(* Note the order of the parameters: the header declares it as            *)
(* is_subpath(base, sub).                                                  *)
(***************************************************************************)
IsSubpath(cwd, dirs, files, sub, base) ==
  IsPrefix(Elements(Normalize(cwd, dirs, files, base)),
           Elements(Normalize(cwd, dirs, files, sub)))

(***************************************************************************)
(* fsutils::relative(path, base) = std::filesystem::relative for an        *)
(* absolute path and the server root, both normal: as many ".." as base    *)
(* has names past the common prefix, then the rest of path; "." if equal.  *)
(***************************************************************************)
CommonPrefixLen(a, b) ==
  CHOOSE k \in 0..Len(a) :
    /\ k <= Len(b)
    /\ SubSeq(a, 1, k) = SubSeq(b, 1, k)
    /\ (k = Len(a) \/ k = Len(b) \/ a[k + 1] # b[k + 1])

Relative(path, base) ==
  LET a   == LexNormalAbs(path.segs)
      k   == CommonPrefixLen(a, base)
      rel == [i \in 1..(Len(base) - k) |-> ".."] \o SubSeq(a, k + 1, Len(a))
  IN  [abs |-> FALSE, segs |-> IF rel = <<>> THEN <<".">> ELSE rel]

-----------------------------------------------------------------------------
(***************************************************************************)
(* Effects of the mutating helpers on the sets of locations.               *)
(***************************************************************************)

\* fsutils::mkdir = create_directories: every missing ancestor is created;
\* it throws when one of them is a regular file.
CreateDirectoriesThrows(files, l) == PathPrefixes(l) \cap files # {}
CreateDirectories(dirs, l) == dirs \cup PathPrefixes(l)

\* fsutils::rmdir = remove_all: the subtree goes; removing "/" itself fails
\* after its contents are gone, and the throwing overload throws.
RemoveAll(locs, l) == {p \in locs : ~Within(l, p)}
RemoveAllThrows(l) == l = <<>>

\* fsutils::copy_file with copy_options::none: a regular source, a missing
\* destination whose directory exists; the error code is caught.
CopyFileOk(dirs, files, src, dst) ==
  /\ src \in files
  /\ dst # <<>> /\ dst \notin dirs \cup files
  /\ Parent(dst) \in dirs

(***************************************************************************)
(* fsutils::move_file(src, dst, false).  rename(2) moves the subtree; it   *)
(* fails for "/", for a destination inside the source and when the         *)
(* destination directory is missing (session.cpp has already refused an   *)
(* existing destination).  On failure the code constructs an ifstream on  *)
(* src and then an ofstream on dst, whether or not src opened: dst is     *)
(* created as a file whenever its directory exists.  Only when both open  *)
(* (a directory opens for reading) does it copy and remove src, which      *)
(* fails for a non-empty directory.                                        *)
(***************************************************************************)
RenameOk(dirs, files, src, dst) ==
  /\ src # <<>> /\ src \in dirs \cup files
  /\ dst # <<>> /\ dst \notin dirs \cup files
  /\ Parent(dst) \in dirs
  /\ ~Within(src, dst)

Reroot(locs, src, dst) ==
  {IF Within(src, p) THEN dst \o SubSeq(p, Len(src) + 1, Len(p)) ELSE p : p \in locs}

DestOpens(dirs, dst) == dst # <<>> /\ dst \notin dirs /\ Parent(dst) \in dirs

SourceOpens(dirs, files, src) == src \in dirs \cup files

FallbackRemoves(dirs, files, src) ==
  src # <<>> /\ \A p \in dirs \cup files : Within(src, p) => p = src

=============================================================================
