------------------------------ MODULE FsRequests ------------------------------
(***************************************************************************)
(* The handlers of the filesystem extension that the resource pool runs:   *)
(* $fs/put, $fs/get, $fs/hash, $fs/delete and $fs/move, on a tree of files *)
(* and directories.  Each handler is a sequence of calls to the operating  *)
(* system; the threads of the pool interleave them.                        *)
(*                                                                         *)
(* A path is the sequence of its names below the base path.  A file is     *)
(* named by the PUT that created it, and its content is the sequence of    *)
(* the PUTs that wrote its blocks; a directory is known by its path.  What *)
(* a handler asks in a row about one path (exists, status, file_size) is   *)
(* one step, and so is reading a file or a directory.  Uploads and other   *)
(* programs that write the same files are left out.  Opening and writing   *)
(* may fail; removing and renaming fail where the tree makes them fail.    *)
(***************************************************************************)
EXTENDS Integers, Sequences, FiniteSets

CONSTANTS
  Requests,   \* RUN requests, each used once
  Paths,      \* paths of files and directories, without the base path
  MaxBlocks,  \* bound on the blocks of an inline file
  Workers,    \* threads of the resource pool
  Asked,      \* what the requests may ask
  Directory,  \* the entry of a directory
  None        \* no entry, no request

VARIABLES
  tree,      \* what is at each path: a file, Directory or None
  data,      \* the content of each file
  req,       \* what each request asks
  pc,        \* the call each handler is at, or how it ended
  file,      \* the file a PUT or a hash has open
  size,      \* the file_size() a GET or a hash has read
  result,    \* the content a GET returns or a hash is of
  todo,      \* the paths a handler still has to create, or to remove
  disturbed, \* requests that ran beside one on the same part of the tree,
             \* or beside one whose open file may have been moved there
  lost       \* PUTs whose content could not be written by close()

fsvars == <<tree, data, req, pc, file, size, result, todo, disturbed, lost>>

PutRequest ==
  [verb : {"put"}, path : Paths, blocks : 0..MaxBlocks, overwrite : BOOLEAN]
MoveRequest == [verb : {"move"}, path : Paths, to : Paths, overwrite : BOOLEAN]
DeleteRequest == [verb : {"delete"}, path : Paths, recursive : BOOLEAN]
PathRequest == [verb : {"mkdir", "get", "hash"}, path : Paths]
Request == PutRequest \cup MoveRequest \cup DeleteRequest \cup PathRequest

\* A path is not empty, and what is above it is a path too.
Names == UNION {{p[i] : i \in DOMAIN p} : p \in Paths}

ASSUME FsRequestsAssumption ==
  /\ Paths \subseteq Seq(Names) \ {<<>>}
  /\ \A p \in Paths : \A n \in 1..Len(p) : SubSeq(p, 1, n) \in Paths
  /\ MaxBlocks \in Nat
  /\ Workers \in Nat \ {0}
  /\ Asked \subseteq Request
  /\ {None, Directory} \cap Requests = {}
  /\ None # Directory

Ends == {"ok", "refused", "failed"}

FsInit ==
  /\ tree = [p \in Paths |-> None]
  /\ data = [r \in Requests |-> <<>>]
  /\ req = [r \in Requests |-> None]
  /\ pc = [r \in Requests |-> "new"]
  /\ file = [r \in Requests |-> None]
  /\ size = [r \in Requests |-> 0]
  /\ result = [r \in Requests |-> <<>>]
  /\ todo = [r \in Requests |-> {}]
  /\ disturbed = {}
  /\ lost = {}

history == <<disturbed, lost>>

At(r, place) == pc[r] = place
Go(r, place) == pc' = [pc EXCEPT ![r] = place]

-----------------------------------------------------------------------------
(* The tree                                                                *)

Parent(p) == SubSeq(p, 1, Len(p) - 1)
Within(p, d) == Len(d) <= Len(p) /\ SubSeq(p, 1, Len(d)) = d

Exists(p) == tree[p] # None
IsDirectory(p) == p \in Paths => tree[p] = Directory
IsFile(p) == Exists(p) /\ ~IsDirectory(p)
Children(d) == {p \in Paths : p # d /\ Within(p, d) /\ Exists(p)}

\* n blocks written by r at the start of content c.
Overwritten(c, r, n) ==
  [i \in 1..(IF Len(c) > n THEN Len(c) ELSE n) |-> IF i <= n THEN r ELSE c[i]]

\* remove(): a file, or a directory without entries.
Removed(p) == [tree EXCEPT ![p] = None]
Removable(p) == Children(p) = {}

\* What p is called after source was renamed to target.
Renamed(p, source, target) ==
  target \o SubSeq(p, Len(source) + 1, Len(p))

\* rename(): files replace files, directories empty directories.
Renames(source, target) ==
  /\ Exists(source)
  /\ IsDirectory(Parent(target))
  /\ source # target => ~Within(target, source)
  /\ Exists(target) => /\ IsDirectory(source) <=> IsDirectory(target)
                       /\ source # target => Removable(target)

AfterRename(source, target) ==
  [p \in Paths |->
     IF Within(p, target)
     THEN LET old == Renamed(p, target, source)
          IN  IF old \in Paths THEN tree[old] ELSE None
     ELSE IF Within(p, source) THEN None ELSE tree[p]]

-----------------------------------------------------------------------------
(* The resource pool                                                       *)

Busy == {r \in Requests : pc[r] \notin {"new"} \cup Ends}

\* The paths a request is about, and whether two requests may see each other.
About(q) == IF q.verb = "move" THEN {q.path, q.to} ELSE {q.path}
Related(q1, q2) ==
  \E p1 \in About(q1), p2 \in About(q2) : Within(p1, p2) \/ Within(p2, p1)

\* A thread of the pool takes request q.
Dispatch(r, q) ==
  /\ At(r, "new")
  /\ Cardinality(Busy) < Workers
  /\ req' = [req EXCEPT ![r] = q]
  /\ Go(r, q.verb)
  /\ LET seen == {s \in Busy : Related(q, req[s]) \/ s \in disturbed}
     IN  disturbed' = disturbed \cup seen \cup (IF seen = {} THEN {} ELSE {r})
  /\ UNCHANGED <<tree, data, file, size, result, todo, lost>>

-----------------------------------------------------------------------------
(* handle_put()                                                            *)

\* The overwrite policy, over the existence just read.
RefusesNothing(q) == FALSE
Refuses(q) == Exists(q.path) /\ ~q.overwrite

\* create_directories(): the missing ones are found, then created from the
\* outermost on.  place is where the handler goes on.
Missing(d) == {p \in Paths : Within(d, p) /\ ~Exists(p)}
Blocked(d) == \E p \in Paths : Within(d, p) /\ IsFile(p)
CreatesDirectories(r, d, place) ==
  /\ todo' = [todo EXCEPT ![r] = IF Blocked(d) THEN {} ELSE Missing(d)]
  /\ Go(r, IF Blocked(d) THEN "failed"
           ELSE IF Missing(d) = {} THEN place ELSE "make")

PutChecks(r) ==
  /\ At(r, "put")
  /\ IF Refuses(req[r])
     THEN Go(r, "refused") /\ UNCHANGED todo
     ELSE CreatesDirectories(r, Parent(req[r].path), "open")
  /\ UNCHANGED <<tree, data, req, file, size, result, history>>

\* A PUT of a path that ends with a slash; that it exists is no error.
MkdirChecks(r) ==
  /\ At(r, "mkdir")
  /\ CreatesDirectories(r, req[r].path, "ok")
  /\ UNCHANGED <<tree, data, req, file, size, result, history>>

\* mkdir(): a directory made meanwhile is no error.
Outermost(S) == {p \in S : \A q \in S : Len(p) <= Len(q)}
MkdirFails(p) == ~IsDirectory(Parent(p)) \/ IsFile(p)
DirectoryMade(r) ==
  /\ At(r, "make")
  /\ \E p \in Outermost(todo[r]) :
       IF MkdirFails(p)
       THEN Go(r, "failed") /\ UNCHANGED <<tree, todo>>
       ELSE /\ tree' = [tree EXCEPT ![p] = Directory]
            /\ todo' = [todo EXCEPT ![r] = @ \ {p}]
            /\ Go(r, IF todo[r] # {p} THEN "make"
                     ELSE IF req[r].verb = "put" THEN "open" ELSE "ok")
  /\ UNCHANGED <<data, req, file, size, result, history>>

\* The file is created, or the one at the path truncated.
KeptContent(f) == data
Truncated(f) == [data EXCEPT ![f] = <<>>]
PutOpens(r) ==
  /\ At(r, "open")
  /\ IsDirectory(Parent(req[r].path)) /\ ~IsDirectory(req[r].path)
  /\ LET f == IF Exists(req[r].path) THEN tree[req[r].path] ELSE r
     IN  /\ tree' = [tree EXCEPT ![req[r].path] = f]
         /\ data' = Truncated(f)
         /\ file' = [file EXCEPT ![r] = f]
  /\ Go(r, IF req[r].blocks = 0 THEN "ok" ELSE "write")
  /\ UNCHANGED <<req, size, result, todo, history>>

PutOpenFails(r) ==
  /\ At(r, "open")
  /\ Go(r, "failed")
  /\ UNCHANGED <<tree, data, req, file, size, result, todo, history>>

PutWrites(r) ==
  /\ At(r, "write")
  /\ data' = [data EXCEPT ![file[r]] = Overwritten(@, r, req[r].blocks)]
  /\ Go(r, "ok")
  /\ UNCHANGED <<tree, req, file, size, result, todo, history>>

\* A short content stays in the buffer of the stream until close(), which
\* writes some of it only; its failure is not asked for.
PutLoses(r) ==
  /\ At(r, "write")
  /\ \E n \in 0..(req[r].blocks - 1) :
       data' = [data EXCEPT ![file[r]] = Overwritten(@, r, n)]
  /\ Go(r, "ok")
  /\ lost' = lost \cup {r}
  /\ UNCHANGED <<tree, req, file, size, result, todo, disturbed>>

\* Some of the blocks are written; the file is closed.
AfterFailedWriteNothing(r) == Go(r, "failed")
AfterFailedWrite(r) == Go(r, "cleanup")

PutWriteFails(r) ==
  /\ At(r, "write")
  /\ \E n \in 0..(req[r].blocks - 1) :
       data' = [data EXCEPT ![file[r]] = Overwritten(@, r, n)]
  /\ AfterFailedWrite(r)
  /\ UNCHANGED <<tree, req, file, size, result, todo, history>>

\* Whatever is at the path now is removed.
PutCleansUp(r) ==
  /\ At(r, "cleanup")
  /\ tree' = IF Removable(req[r].path) THEN Removed(req[r].path) ELSE tree
  /\ Go(r, "failed")
  /\ UNCHANGED <<data, req, file, size, result, todo, history>>

-----------------------------------------------------------------------------
(* handle_get(), handle_list(), handle_download() and handle_hash()        *)

\* A directory is listed; a file is read once its size is known.
GetMeasures(r) ==
  /\ At(r, "get")
  /\ IF IsFile(req[r].path)
     THEN /\ size' = [size EXCEPT ![r] = Len(data[tree[req[r].path]])]
          /\ Go(r, "read")
     ELSE /\ UNCHANGED size
          /\ Go(r, IF Exists(req[r].path) THEN "ok" ELSE "refused")
  /\ UNCHANGED <<tree, data, req, file, result, todo, history>>

\* A buffer of the size read before is filled; it fails on a shorter file.
GetReads(r) ==
  /\ At(r, "read")
  /\ IF IsFile(req[r].path) /\ Len(data[tree[req[r].path]]) >= size[r]
     THEN /\ result' = [result EXCEPT
                          ![r] = SubSeq(data[tree[req[r].path]], 1, size[r])]
          /\ Go(r, "ok")
     ELSE /\ UNCHANGED result
          /\ Go(r, "failed")
  /\ UNCHANGED <<tree, data, req, file, size, todo, history>>

HashOpens(r) ==
  /\ At(r, "hash")
  /\ IF IsFile(req[r].path)
     THEN /\ file' = [file EXCEPT ![r] = tree[req[r].path]]
          /\ Go(r, "digest")
     ELSE /\ UNCHANGED file
          /\ Go(r, "refused")
  /\ UNCHANGED <<tree, data, req, size, result, todo, history>>

HashReads(r) ==
  /\ At(r, "digest")
  /\ result' = [result EXCEPT ![r] = data[file[r]]]
  /\ Go(r, "measure")
  /\ UNCHANGED <<tree, data, req, file, size, todo, history>>

\* The size is looked up by path again; none is reported as zero.
HashMeasures(r) ==
  /\ At(r, "measure")
  /\ size' = [size EXCEPT ![r] = IF IsFile(req[r].path)
                                 THEN Len(data[tree[req[r].path]]) ELSE 0]
  /\ Go(r, "ok")
  /\ UNCHANGED <<tree, data, req, file, result, todo, history>>

-----------------------------------------------------------------------------
(* handle_delete() and handle_move()                                       *)

\* remove_all() begins with the entries it finds, remove() with the path.
DeletesTree(q) == IsDirectory(q.path) /\ q.recursive
Doomed(q) == {q.path} \cup (IF DeletesTree(q) THEN Children(q.path) ELSE {})
DeleteChecks(r) ==
  /\ At(r, "delete")
  /\ IF Exists(req[r].path)
     THEN Go(r, "remove") /\ todo' = [todo EXCEPT ![r] = Doomed(req[r])]
     ELSE Go(r, "refused") /\ UNCHANGED todo
  /\ UNCHANGED <<tree, data, req, file, size, result, history>>

\* Entries go before their directory.  One that is gone meanwhile is no error,
\* one that was added to a directory is.
DeleteRemoves(r) ==
  /\ At(r, "remove")
  /\ \E p \in todo[r] :
       /\ \A q \in todo[r] \ {p} : ~Within(q, p)
       /\ IF Removable(p)
          THEN /\ tree' = Removed(p)
               /\ todo' = [todo EXCEPT ![r] = @ \ {p}]
               /\ Go(r, IF todo[r] = {p} THEN "ok" ELSE "remove")
          ELSE Go(r, "failed") /\ UNCHANGED <<tree, todo>>
  /\ UNCHANGED <<data, req, file, size, result, history>>

\* Both paths are looked up.
MoveRefuses(q) == ~Exists(q.path) \/ (Exists(q.to) /\ ~q.overwrite)

MoveChecks(r) ==
  /\ At(r, "move")
  /\ Go(r, IF MoveRefuses(req[r]) THEN "refused" ELSE "rename")
  /\ UNCHANGED <<tree, data, req, file, size, result, todo, history>>

\* A directory is only moved to where Paths has names for all it holds.
MoveRenames(r) ==
  /\ At(r, "rename")
  /\ LET from == req[r].path
         to   == req[r].to
     IN  IF Renames(from, to)
         THEN /\ \A p \in Children(from) : Renamed(p, from, to) \in Paths
              /\ tree' = AfterRename(from, to)
              /\ Go(r, "ok")
         ELSE /\ UNCHANGED tree
              /\ Go(r, "failed")
  /\ UNCHANGED <<data, req, file, size, result, todo, history>>

Handler(r) ==
  \/ PutChecks(r) \/ MkdirChecks(r) \/ DirectoryMade(r)
  \/ PutOpens(r) \/ PutOpenFails(r)
  \/ PutWrites(r) \/ PutLoses(r) \/ PutWriteFails(r) \/ PutCleansUp(r)
  \/ GetMeasures(r) \/ GetReads(r)
  \/ HashOpens(r) \/ HashReads(r) \/ HashMeasures(r)
  \/ DeleteChecks(r) \/ DeleteRemoves(r)
  \/ MoveChecks(r) \/ MoveRenames(r)

FsNext ==
  \E r \in Requests : Handler(r) \/ \E q \in Asked : Dispatch(r, q)

FsSpec == FsInit /\ [][FsNext]_fsvars

-----------------------------------------------------------------------------
(* Properties                                                              *)

FsTypeOK ==
  /\ tree \in [Paths -> Requests \cup {Directory, None}]
  /\ data \in [Requests -> Seq(Requests)]
  /\ req \in [Requests -> Asked \cup {None}]
  /\ pc \in [Requests -> {"new", "put", "mkdir", "make", "open", "write",
                          "cleanup", "get", "read", "hash", "digest",
                          "measure", "delete", "remove", "move", "rename"}
                         \cup Ends]
  /\ file \in [Requests -> Requests \cup {None}]
  /\ size \in [Requests -> 0..MaxBlocks]
  /\ result \in [Requests -> Seq(Requests)]
  /\ todo \in [Requests -> SUBSET Paths]
  /\ disturbed \in SUBSET Requests
  /\ lost \in SUBSET Requests

\* The tree is as the answer of request r says.
Done(r) ==
  LET q == req[r]
  IN  CASE q.verb = "put" ->
             /\ IsFile(q.path)
             /\ r \notin lost => data[tree[q.path]] = [i \in 1..q.blocks |-> r]
        [] q.verb = "mkdir" -> IsDirectory(q.path)
        [] q.verb = "delete" -> \A p \in Paths : Within(p, q.path) => ~Exists(p)
        [] q.verb = "move" -> Exists(q.to) /\ (q.path # q.to => ~Exists(q.path))
        [] OTHER -> TRUE

\* A success is answered only for what was done, all of it, whatever requests
\* on other parts of the tree do at the same time: they may make the same
\* parent directories, and remove and move what is beside the path.  Nor do
\* they make each other fail: not when they make the same directory, and not
\* while a file is read or a directory removed with all it holds.  (Content
\* that close() loses is not noticed.)
AnswersAreTrue ==
  [][\A r \in Requests \ disturbed : pc[r] # pc'[r] =>
       /\ pc'[r] = "ok" => Done(r)'
       /\ pc'[r] = "failed" =>
            /\ pc[r] \notin {"make", "read"}
            /\ pc[r] = "remove" => ~req[r].recursive]_fsvars

\* A PUT or a MOVE with overwrite=false replaces no file: neither one that is
\* there when the file is opened, nor one at the destination of the rename.
\* The check comes before, so other requests on these paths must keep out.
SafeCreate ==
  [][\A r \in Requests \ disturbed :
       /\ PutOpens(r) /\ ~req[r].overwrite => ~Exists(req[r].path)
       /\ MoveRenames(r) /\ ~req[r].overwrite /\ pc'[r] = "ok"
            => ~Exists(req[r].to)]_fsvars

\* A GET returns what one PUT wrote, all of it, and a hash is of that and of
\* the size that comes with it: not of a file that is only truncated yet, of
\* parts of two, or of what a failed PUT left behind, wherever a MOVE put it.
ReadIsWhole ==
  disturbed \cup lost = {} =>
    \A g \in Requests :
      pc[g] = "ok" /\ (req[g].verb = "hash" \/ size[g] > 0) =>
        /\ Len(result[g]) = size[g]
        /\ \E r \in Requests :
             /\ pc[r] = "ok" /\ req[r].verb = "put"
             /\ result[g] = [i \in 1..req[r].blocks |-> r]

-----------------------------------------------------------------------------
(* What the code does not guarantee                                        *)

\* As the properties above, for requests on the same part of the tree too.
AnswersAreAlwaysTrue ==
  [][\A r \in Requests : pc[r] # "ok" /\ pc'[r] = "ok" => Done(r)']_fsvars
AlwaysSafeCreate ==
  [][\A r \in Requests :
       PutOpens(r) /\ ~req[r].overwrite => ~Exists(req[r].path)]_fsvars

\* A PUT that answers success has written all of its content.
SuccessIsWritten == lost = {}

\* A PUT that fails leaves the file it was to replace.
FailureKeepsFile ==
  [][\A r \in Requests : PutCleansUp(r) => tree[req[r].path] \in {r, None}]_fsvars
===============================================================================
