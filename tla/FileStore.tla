------------------------------ MODULE FileStore ------------------------------
(***************************************************************************)
(* The cache directory of common/filesystem/FileCache.cpp, shared by the    *)
(* player, the http server and the https server.  A store says whether the  *)
(* directory exists and maps the names of its files to their contents.      *)
(*                                                                          *)
(* std::experimental::filesystem appends with "/": m_path / "" is the       *)
(* directory itself, and m_path / "/abs/x.mp3" is m_path "/abs/x.mp3",      *)
(* which is no file at all.  The three kinds of argument below keep that    *)
(* apart.                                                                   *)
(***************************************************************************)
EXTENDS Functions

Empty == [n \in {} |-> n]

Bare(n) == [kind |-> "bare", name |-> n]

(* A song's path column as an argument of deleteFile. *)
StoredPath(p, none) == [kind |-> IF p = none THEN "empty" ELSE "absolute", name |-> p]

(* ensureCacheDirCreated_: the constructor creates the directory and        *)
(* removes whatever it holds.                                               *)
FreshStore == [dir |-> TRUE, files |-> Empty]

IsFileCached(c, n) == n \in DOMAIN c.files

(* setFileContent, for a directory that exists. *)
SetFileContent(c, n, content) ==
    [c EXCEPT !.files = [m \in DOMAIN c.files \cup {n} |->
                            IF m = n THEN content ELSE c.files[m]]]

(* deleteFile: remove_all(m_path / fileName). *)
DeleteFile(c, arg) ==
    CASE arg.kind = "bare"     -> [c EXCEPT !.files = Restrict(c.files, DOMAIN c.files \ {arg.name})]
      [] arg.kind = "empty"    -> [dir |-> FALSE, files |-> Empty]
      [] arg.kind = "absolute" -> c
=============================================================================
