---------------------------- MODULE SandboxPolicy ----------------------------
(***************************************************************************)
(* SecurityPolicy::check_path_access of src/security/policy.rs, with the   *)
(* rules it judges a path by.  A path is the sequence of its components:   *)
(* an absolute one begins with Slash.  A name is a string of the instance, *)
(* judged by the sets it belongs to and never letter by letter.            *)
(*                                                                         *)
(* The file system is external: Entries are the places that exist when the *)
(* server comes up, Link says where a symbolic link leads, and files       *)
(* created later are no links.  The screening of hosts is not modelled: no *)
(* tool of this repository opens a connection.                             *)
(***************************************************************************)
EXTENDS Naturals, Sequences

LOCAL INSTANCE SequencesExt

CONSTANTS
    Cwd,                \* the current directory
    AllowedRoots,       \* allowed_root_paths, as configured
    BlockedName,        \* names a blocked pattern, a stream marker, a
                        \* backslash or a reserved device name forbids
    ShortName,          \* names that look like an 8.3 short name
    Entries,            \* places that exist
    Link                \* place of a symbolic link -> place it leads to

Slash == "/"

Name == STRING

(* Links lead to places that exist, and no place is under a link. *)
ASSUME PolicyAssumption ==
    /\ Cwd \in Seq(Name) /\ Cwd # <<>> /\ Head(Cwd) = Slash
    /\ AllowedRoots \subseteq Seq(Name)
    /\ Entries \subseteq Seq(Name) /\ <<Slash>> \in Entries
    /\ \A l \in DOMAIN Link : Link[l] \in Entries /\ l \notin Entries

(* PathBuf::pop: a root stays. *)
Pop(path) == IF Len(path) <= 1 THEN path ELSE SubSeq(path, 1, Len(path) - 1)

(* One component after the path so far. *)
Descend(out, c) ==
    CASE c = "."  -> out
      [] c = ".." -> Pop(out)
      [] OTHER    -> Append(out, c)

(* lexical_normalize. *)
Normalize(path) ==
    LET out[n \in 0 .. Len(path)] ==
          IF n = 0 THEN <<>> ELSE Descend(out[n - 1], path[n])
    IN  out[Len(path)]

AbsoluteNormalized(path) ==
    Normalize(IF path # <<>> /\ Head(path) = Slash THEN path ELSE Cwd \o path)

Follow(place) == IF place \in DOMAIN Link THEN Link[place] ELSE place

(* Where the file system ends up on a path that has no ".." left. *)
Place(path) ==
    LET at[n \in 0 .. Len(path)] ==
          IF n = 0 THEN <<>> ELSE Follow(Append(at[n - 1], path[n]))
    IN  at[Len(path)]

Existing(path, n) == Place(SubSeq(path, 1, n)) \in Entries

\* mutant: a path that does not exist yet is taken literally
CanonicalOrLiteral(path) == IF Existing(path, Len(path)) THEN Place(path) ELSE path

(* canonical_if_exists: the longest part of the path that exists is        *)
(* resolved, the rest is kept.                                             *)
CanonicalIfExists(path) ==
    LET n == CHOOSE i \in 1 .. Len(path) :
                Existing(path, i) /\ \A j \in i + 1 .. Len(path) : ~Existing(path, j)
    IN  Place(SubSeq(path, 1, n)) \o SubSeq(path, n + 1, Len(path))

Roots == {AbsoluteNormalized(r) : r \in AllowedRoots}

(* Path::starts_with. *)
StartsWith(path, root) == IsPrefix(root, path)

Inside(path) ==
    /\ \E r \in Roots : StartsWith(path, r)
    /\ \E r \in Roots : StartsWith(CanonicalIfExists(path), CanonicalIfExists(r))

Screened(path) ==
    \/ \E i \in DOMAIN path : path[i] \in BlockedName
    \/ Last(path) \in ShortName

(* check_path_access is Ok. *)
Accessible(path) ==
    /\ path # <<>>
    /\ Inside(AbsoluteNormalized(path))
    /\ ~Screened(AbsoluteNormalized(path))

(* A place below one of the roots the policy was given. *)
InRoots(place) == \E r \in Roots : StartsWith(place, Place(r))
=============================================================================
