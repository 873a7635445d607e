---------------------------- MODULE ImportPaths ----------------------------
(***************************************************************************)
(* How an import finds its module.  A module is known by a key made from   *)
(* its path, and three parts of the compiler each make the key of an       *)
(* import on their own: the loader, the ordering and the resolver.  The    *)
(* native compiler normalizes with FS:normalize, the bootstrap compiler    *)
(* with os.path.normpath in the first two and its own normalize_path in    *)
(* the resolver.  The state is one module, and a step follows one of its   *)
(* imports.                                                                *)
(*                                                                         *)
(* A path is the sequence of what stands between its slashes, so that ""   *)
(* is a doubled slash and the empty path is <<"">>.                        *)
(***************************************************************************)
EXTENDS Integers, SequencesExt

CONSTANTS
  Mains,     (* the paths the compiler may be started with                 *)
  Imports,   (* the paths a module may import                              *)
  MaxDepth   (* bound: segments of the path of a file                      *)

VARIABLES
  file,      (* ghost: the file, by its shortest path                      *)
  native,    (* its key in the native compiler                             *)
  loader,    (* its key for load_recursive                                 *)
  ordering,  (* its key for determine_compilation_order                    *)
  resolver   (* its key for resolve_import                                 *)

pathVars == <<file, native, loader, ordering, resolver>>

Segments == {"", ".", "..", "-"} \union
  UNION {{p[k] : k \in DOMAIN p} : p \in Mains \union Imports}

(* The path of a file, relative to a directory.  Of the segments that mean *)
(* nothing no two stand together: the normalizers differ where some do.    *)
Given(path) ==
  /\ path \in Seq(Segments) /\ path # << >>
  /\ path[1] # "" /\ Last(path) \notin {"", ".", ".."}
  /\ \A k \in 1..(Len(path) - 1) : ~({path[k], path[k + 1]} \subseteq {"", "."})

(* A dash stands for the standard input, which no module may import.       *)
ASSUME PathsAssumption ==
  /\ \A path \in Mains \union Imports : Given(path)
  /\ \A path \in Imports : Last(path) # "-"

Stdin == <<"-">>

(* The shortest path to the same file; external: os.path.normpath, for the *)
(* relative paths to a file that are given to it here.                     *)
Enter(at, segment) ==
  CASE segment \in {"", "."} -> at
    [] segment = ".." /\ at # << >> /\ Last(at) # ".." -> Front(at)
    [] OTHER -> Append(at, segment)

NormPath(path) ==
  LET at[k \in 0..Len(path)] ==
        IF k = 0 THEN << >> ELSE Enter(at[k - 1], path[k])
  IN at[Len(path)]

(* The directory of a file, with the slash.                                *)
Dir(path) == Front(path)

-----------------------------------------------------------------------------
(* str-replace of "//", or of "/./", by "/".  A match that shares a slash  *)
(* with the one before is not seen.                                        *)
DropBetweenSlashes(path, segment) ==
  LET upTo[k \in 0..Len(path)] ==
        IF k = 0 THEN [left |-> << >>, dropped |-> FALSE]
        ELSE LET acc == upTo[k - 1] IN
             IF 1 < k /\ k < Len(path) /\ path[k] = segment /\ ~acc.dropped
             THEN [left |-> acc.left, dropped |-> TRUE]
             ELSE [left |-> Append(acc.left, path[k]), dropped |-> FALSE]
  IN upTo[Len(path)].left

(* A slip: "../.." goes as well.                                           *)
NotDot(segment) == segment # "."

Ordinary(segment) == segment \notin {".", ".."}

(* The loop that drops a directory together with the ".." after it.        *)
DropUps(path) ==
  LET upTo[k \in 0..Len(path)] ==
        IF k = 0 THEN [left |-> << >>, skip |-> FALSE]
        ELSE LET acc == upTo[k - 1] IN
             IF acc.skip THEN [left |-> acc.left, skip |-> FALSE]
             ELSE IF k < Len(path) /\ path[k + 1] = ".." /\ Ordinary(path[k])
             THEN [left |-> acc.left, skip |-> TRUE]
             ELSE [left |-> Append(acc.left, path[k]), skip |-> FALSE]
  IN upTo[Len(path)].left

StripDot(path) ==
  IF Len(path) > 1 /\ path[1] = "." THEN Tail(path) ELSE path

(* split-bytes: an empty rest makes no segment.                            *)
Split(path) == IF Last(path) = "" THEN Front(path) ELSE path

(* join-with, which makes the empty path of no segments.                   *)
Join(segments) == IF segments = << >> THEN <<"">> ELSE segments

(* One round of FS:normalize.                                              *)
Round(path) ==
  Join(DropUps(Split(
    DropBetweenSlashes(DropBetweenSlashes(StripDot(path), ""), "."))))

(* FS:normalize, again until a round changes nothing.  A round that does   *)
(* change the path shortens it.                                            *)
Normalize(path) ==
  LET after[k \in 0..Len(path)] == IF k = 0 THEN path ELSE Round(after[k - 1])
  IN after[Len(path)]

Dotted(path) ==
  IF Len(path) > 1 /\ path[1] = "." THEN path ELSE <<".">> \o path

Replaced(path) ==
  DropBetweenSlashes(DropBetweenSlashes(Dotted(path), ""), ".")

(* A slip: never again.                                                    *)
NormalizedOnce(path) == DropUps(Replaced(path))

(* normalize_path of the bootstrap compiler: again only when dropping ".." *)
(* changed something.                                                      *)
normalize_path(path) ==
  LET after[k \in 0..Len(path)] ==
        IF k = 0 THEN [path |-> path, done |-> FALSE]
        ELSE LET acc == after[k - 1]
                 p == Replaced(acc.path)
             IN IF acc.done THEN acc
                ELSE [path |-> DropUps(p), done |-> DropUps(p) = p]
  IN after[Len(path)].path

-----------------------------------------------------------------------------
(* The key resolve_modules gives a loaded module.                          *)
Keyed(path) == IF path = Stdin THEN path ELSE <<".">> \o path

(* The main module; the path is normalized as that of an import is.        *)
PathsInit ==
  \E main \in Mains \union {Stdin} :
    /\ file = NormPath(main)
    /\ native = IF main = Stdin THEN Stdin ELSE Normalize(main)
    /\ loader = NormPath(main)
    /\ ordering = Keyed(NormPath(main))
    /\ resolver = Keyed(NormPath(main))

(* The keys of the import `path' of the module.                            *)
NativeKey(path) == Normalize(Dir(native) \o path)
LoaderKey(path) == NormPath(Dir(loader) \o path)
OrderingKey(path) == Keyed(NormPath(Dir(ordering) \o path))

(* Of a module in no directory the resolver keeps the slash.               *)
ResolverKey(path) ==
  normalize_path((IF Dir(loader) = << >> THEN <<"">> ELSE Dir(loader)) \o path)

Follow(path) ==
  /\ file' = NormPath(Dir(file) \o path)
  /\ Len(file') <= MaxDepth
  /\ native' = NativeKey(path)
  /\ loader' = LoaderKey(path)
  /\ ordering' = OrderingKey(path)
  /\ resolver' = ResolverKey(path)

PathsNext == \E path \in Imports : Follow(path)

PathsSpec == PathsInit /\ [][PathsNext]_pathVars

-----------------------------------------------------------------------------
(* The file and its keys are not empty and end in a name.                  *)
PathsTypeOK ==
  \A path \in {file, native, loader, ordering, resolver} :
    path \in Seq(Segments) /\ Len(path) > 0 /\ Last(path) \notin {"", ".", ".."}

(* A file has one key in the native compiler, however it is reached, which *)
(* is the shortest path to it: normalizing neither leads to another file   *)
(* nor loads a module twice (fs.watim:121).                                *)
OneKeyPerFile == native = file

(* The resolver of the bootstrap compiler looks every import up under the  *)
(* key the module was put in order and, with "./", was loaded by: the two  *)
(* ways to normalize agree (bootstrap/util.py:72,                          *)
(* bootstrap/resolving/resolver.py:104).                                   *)
ResolverFindsModule == resolver = ordering /\ ordering = Keyed(loader)
=============================================================================
