------------------------------- MODULE AdminFiles -------------------------------
(***************************************************************************)
(* The file manager of docker/admin_service.py. Every request runs in a    *)
(* thread of its own and takes no lock: it looks at the paths it was given *)
(* first and changes them in later system calls. A file under a path is an *)
(* inode, so that a write that is under way follows a file that is renamed *)
(* or deleted. Uploading and writing text open the file truncating it and  *)
(* then write the body.                                                    *)
(*                                                                         *)
(* The switches that allow an operation and the protected names do not     *)
(* change while the service runs; every path here passes them.             *)
(***************************************************************************)
EXTENDS Integers, Sequences

CONSTANTS FileRequests,  \* the requests, each served once
          FilePaths,     \* paths in one directory
          OldPath,       \* the one that has a file at the start
          NoInode, Directory, Original,
          MaxBlocks      \* bounds the length of a body

ASSUME FilesAssumption ==
    /\ OldPath \in FilePaths
    /\ MaxBlocks \in Nat \ {0}
    /\ NoInode # Directory
    /\ {NoInode, Directory} \cap (FileRequests \cup {Original}) = {}
    /\ Original \notin FileRequests

\* An inode has the name of the request that created it.
Inodes == FileRequests \cup {Original}

VARIABLES
    dir,   \* what each path names
    data,  \* the blocks of each inode, each as the request that wrote it
    req,   \* the requests
    due    \* what an answer promised of a path, as long as nobody asked to change it

filesVars == <<dir, data, req, due>>

Ops == {"upload", "text", "mkdir", "rename", "delete"}
FileRequest == [pc : {"new", "open", "write", "rename", "delete", "ok", "error"}, op : Ops,
                path : FilePaths, target : FilePaths, blocks : 1..MaxBlocks,
                fd : Inodes \cup {NoInode}, alone : BOOLEAN]

NewRequest == [pc |-> "new", op |-> "mkdir", path |-> OldPath, target |-> OldPath,
               blocks |-> 1, fd |-> NoInode, alone |-> TRUE]

FilesInit ==
    /\ dir = [p \in FilePaths |-> IF p = OldPath THEN Original ELSE NoInode]
    /\ data = [i \in Inodes |-> IF i = Original THEN <<Original>> ELSE <<>>]
    /\ req = [r \in FileRequests |-> NewRequest]
    /\ due = [p \in FilePaths |-> IF p = OldPath THEN <<Original>> ELSE <<>>]

Exists(p) == dir[p] # NoInode
Answer(r, pc) == req' = [req EXCEPT ![r] = [NewRequest EXCEPT !.pc = pc]]
Serving(r) == req[r].pc \in {"open", "write", "rename", "delete"}

\* A request that is under way names one of these paths, or writes to the file there.
Touches(other, paths) ==
    /\ Serving(other)
    /\ \/ {req[other].path, req[other].target} \cap paths # {}
       \/ \E p \in paths : Exists(p) /\ dir[p] = req[other].fd

\* Defect: the target of a rename is not looked at.
SourceRenamable(p, q) == Exists(p)

\* The checks of rename_payload.
Renamable(p, q) == Exists(p) /\ ~Exists(q)

\* The checks of upload_payload.
Uploadable(p) == ~Exists(p)

FirstStep(op, p, q) ==
    CASE op = "upload" /\ Uploadable(p) -> "open"
      [] op = "text" -> "open"
      [] op = "rename" /\ Renamable(p, q) -> "rename"
      [] op = "delete" /\ Exists(p) -> "delete"
      [] OTHER -> "error"

\* A request looks at its paths. What it asks to change is no longer due.
Begin(r, op, p, q, blocks) ==
    /\ req[r].pc = "new"
    /\ op # "mkdir"
    /\ (op = "rename") = (p # q)
    /\ req' = [other \in FileRequests |->
                  IF other = r
                  THEN [pc |-> FirstStep(op, p, q), op |-> op, path |-> p, target |-> q,
                        blocks |-> blocks, fd |-> NoInode,
                        alone |-> \A o \in FileRequests : ~Touches(o, {p, q})]
                  ELSE [req[other] EXCEPT !.alone = @ /\ ~Touches(other, {p, q})]]
    /\ due' = IF op \in {"text", "rename", "delete"} /\ FirstStep(op, p, q) # "error"
              THEN [due EXCEPT ![p] = <<>>] ELSE due
    /\ UNCHANGED <<dir, data>>

\* One system call. A directory that exists is as good as a new one, unless the body
\* asks for exist_ok = false.
Mkdir(r, p) ==
    /\ req[r].pc = "new"
    /\ \/ ~Exists(p) /\ dir' = [dir EXCEPT ![p] = Directory] /\ Answer(r, "ok")
       \/ dir[p] = Directory /\ Answer(r, "ok") /\ UNCHANGED dir
       \/ Exists(p) /\ Answer(r, "error") /\ UNCHANGED dir
    /\ UNCHANGED <<data, due>>

Open(r) ==
    LET p == req[r].path
        inode == IF Exists(p) THEN dir[p] ELSE r
    IN /\ req[r].pc = "open"
       /\ IF dir[p] = Directory
          THEN Answer(r, "error") /\ UNCHANGED <<dir, data>>
          ELSE /\ dir' = [dir EXCEPT ![p] = inode]
               /\ data' = [data EXCEPT ![inode] = <<>>]
               /\ req' = [req EXCEPT ![r].pc = "write", ![r].fd = inode]
       /\ UNCHANGED due

\* A body is written from the start of the file; a longer one that another request
\* wrote in the meantime keeps its rest.
Over(r, blocks) ==
    LET old == data[req[r].fd] IN
    [i \in 1..(IF blocks > Len(old) THEN blocks ELSE Len(old)) |->
        IF i <= blocks THEN r ELSE old[i]]

\* The whole body, or as much of it as there is room for.
Write(r) ==
    LET p == req[r].path IN
    /\ req[r].pc = "write"
    /\ \/ /\ data' = [data EXCEPT ![req[r].fd] = Over(r, req[r].blocks)]
          /\ Answer(r, "ok")
          /\ due' = IF dir[p] = req[r].fd /\ req[r].alone
                    THEN [due EXCEPT ![p] = [i \in 1..req[r].blocks |-> r]] ELSE due
       \/ /\ \E some \in 0..(req[r].blocks - 1) :
                 data' = [data EXCEPT ![req[r].fd] = Over(r, some)]
          /\ Answer(r, "error")
          /\ UNCHANGED due
    /\ UNCHANGED dir

\* rename(2) replaces a file by a file and a directory by a directory.
Rename(r) ==
    LET p == req[r].path
        q == req[r].target
        possible == Exists(p) /\ (Exists(q) => (dir[p] = Directory) = (dir[q] = Directory))
    IN /\ req[r].pc = "rename"
       /\ IF possible
          THEN dir' = [dir EXCEPT ![q] = dir[p], ![p] = NoInode] /\ Answer(r, "ok")
          ELSE Answer(r, "error") /\ UNCHANGED dir
       /\ UNCHANGED <<data, due>>

\* unlink or rmdir.
Delete(r) ==
    LET p == req[r].path IN
    /\ req[r].pc = "delete"
    /\ IF Exists(p)
       THEN dir' = [dir EXCEPT ![p] = NoInode] /\ Answer(r, "ok")
       ELSE Answer(r, "error") /\ UNCHANGED dir
    /\ UNCHANGED <<data, due>>

FilesNext ==
    \E r \in FileRequests :
        \/ \E op \in Ops, p, q \in FilePaths, blocks \in 1..MaxBlocks :
               Begin(r, op, p, q, blocks)
        \/ \E p \in FilePaths : Mkdir(r, p)
        \/ Open(r) \/ Write(r) \/ Rename(r) \/ Delete(r)

FilesSpec == FilesInit /\ [][FilesNext]_filesVars

------------------------------------------------------------------------------
(* Properties *)

\* The variables keep their types.
FilesTypeOK ==
    /\ dir \in [FilePaths -> Inodes \cup {NoInode, Directory}]
    /\ data \in [Inodes -> Seq(Inodes)]
    /\ req \in [FileRequests -> FileRequest]
    /\ due \in [FilePaths -> Seq(Inodes)]

\* A file that was there, or that was written with no other request under way on its
\* path, keeps its bytes and its path until a text write, a delete or a rename is
\* asked of that path: no upload and no rename onto it takes them away, and neither
\* does a request that fails.
DueIsKept ==
    \A p \in FilePaths : due[p] # <<>> => dir[p] \in Inodes /\ data[dir[p]] = due[p]
=============================================================================
