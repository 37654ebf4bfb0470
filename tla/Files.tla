------------------------------- MODULE Files -------------------------------
(***************************************************************************)
(* Files of tenants on the local disk: uploads, which make the folders     *)
(* they need, deletions, which take away the folders they leave empty, and *)
(* reads, by signed link or by a member of the tenant.  Every step of a    *)
(* request is a call of the file system, and requests interleave at them.  *)
(***************************************************************************)
EXTENDS Integers, FiniteSets

CONSTANTS
    File, Folder, Base,
    FolderOf,   \* [File -> Folder], by the key
    Above,      \* [Folder -> Folder \cup {Base}]
    Client,
    LinkLife, MaxNow, \* bound
    NoFile

ASSUME FilesAssumption ==
    /\ Base \notin Folder /\ FolderOf \in [File -> Folder] /\ Above \in [Folder -> Folder \cup {Base}]
    /\ LinkLife \in Nat /\ MaxNow \in Nat

Works == [op : {"upload", "delete", "read"}, file : File, folder : Folder,
          at : {"first", "write", "stat", "read", "remove", "open"}]
ASSUME NoFileAssumption == NoFile \notin Works \cup Int

VARIABLES
    folders, files, \* on the disk
    work,       \* requests under way
    link,       \* [File -> NoFile or the last instant at which its link opens]
    now,
    uploaded,   \* files whose upload was answered with success
    unlinked,   \* files that a deletion has taken away
    crashed,    \* a stream failed with nobody listening, and the process was shut down
    overlapped  \* two requests were under way at once

fileVars == <<folders, files, work, link, now, uploaded, unlinked, crashed, overlapped>>

-----------------------------------------------------------------------------
(* The folders of a key, from its own up to the base, which stays out of it. *)
Upward(S) == \A e \in S : Above[e] \in S \cup {Base}
PathOf(d) == {e \in Folder : \A S \in SUBSET Folder : d \in S /\ Upward(S) => e \in S}
(* A key has finitely many segments: no folder is above itself. *)
ASSUME AboveAssumption == \A d \in Folder : Above[d] # Base => d \notin PathOf(Above[d])
IsEmpty(d) == (\A f \in files : FolderOf[f] # d) /\ \A e \in folders : Above[e] # d

FilesInit ==
    /\ folders = {} /\ files = {} /\ work = [c \in Client |-> NoFile] /\ link = [f \in File |-> NoFile] /\ now = 0
    /\ uploaded = {} /\ unlinked = {} /\ crashed = FALSE /\ overlapped = FALSE

FileAt(c, op, where) == work[c] # NoFile /\ work[c].op = op /\ work[c].at = where
Begin(c, op, f) ==
    /\ work[c] = NoFile
    /\ work' = [work EXCEPT ![c] = [op |-> op, file |-> f, at |-> "first", folder |-> FolderOf[f]]]
    /\ overlapped' = (overlapped \/ \E d \in Client \ {c} : work[d] # NoFile)
Goes(c, where) == work' = [work EXCEPT ![c].at = where]
Leaves(c) == work' = [work EXCEPT ![c] = NoFile]
Else(kept) == UNCHANGED kept /\ UNCHANGED <<link, now, overlapped>>

(* upload: mkdir -p, writeFile, stat.  A key is new. *)
Upload(c, f) ==
    /\ f \notin uploaded \cup files \cup unlinked /\ \A d \in Client : work[d] # NoFile => work[d].file # f
    /\ Begin(c, "upload", f)
    /\ UNCHANGED <<folders, files, link, now, uploaded, unlinked, crashed>>
EnsureDirectory(c) ==
    /\ FileAt(c, "upload", "first")
    /\ folders' = folders \cup PathOf(FolderOf[work[c].file])
    /\ Goes(c, "write") /\ Else(<<files, uploaded, unlinked, crashed>>)
WriteFile(c) ==
    /\ FileAt(c, "upload", "write")
    /\ IF work[c].folder \in folders THEN files' = files \cup {work[c].file} /\ Goes(c, "stat")
                                     ELSE UNCHANGED files /\ Leaves(c) \* ENOENT
    /\ Else(<<folders, uploaded, unlinked, crashed>>)
Stat(c) ==
    /\ FileAt(c, "upload", "stat")
    /\ uploaded' = IF work[c].file \in files THEN uploaded \cup {work[c].file} ELSE uploaded
    /\ Leaves(c) /\ Else(<<folders, files, unlinked, crashed>>)

(* delete: unlink, and cleanupEmptyDirectories: readdir, rmdir, and the same one folder up. *)
DeleteFile(c, f) ==
    /\ f \in uploaded
    /\ Begin(c, "delete", f)
    /\ UNCHANGED <<folders, files, link, now, uploaded, unlinked, crashed>>
Unlink(c) ==
    /\ FileAt(c, "delete", "first")
    /\ IF work[c].file \in files
       THEN files' = files \ {work[c].file} /\ unlinked' = unlinked \cup {work[c].file} /\ Goes(c, "read")
       ELSE UNCHANGED <<files, unlinked>> /\ Leaves(c) \* ENOENT: false
    /\ Else(<<folders, uploaded, crashed>>)
ReadFolder(c) ==
    /\ FileAt(c, "delete", "read")
    /\ IF work[c].folder \in folders /\ IsEmpty(work[c].folder) THEN Goes(c, "remove") ELSE Leaves(c)
    /\ Else(<<folders, files, uploaded, unlinked, crashed>>)
RemovableAsRead(d) == d \in folders
Nowhere(d) == Base
(* rmdir fails on a folder that is not empty any more, or is gone; the failure is ignored. *)
Removable(d) == d \in folders /\ IsEmpty(d)
Upwards(d) == Above[d]
RemoveFolder(c) ==
    LET d == work[c].folder
    IN /\ FileAt(c, "delete", "remove")
       /\ IF ~Removable(d) THEN Leaves(c) /\ UNCHANGED <<folders, files>>
          ELSE /\ folders' = {e \in folders : d \notin PathOf(e)}
               /\ files' = {f \in files : d \notin PathOf(FolderOf[f])}
               /\ IF Upwards(d) = Base THEN Leaves(c)
                  ELSE work' = [work EXCEPT ![c].at = "read", ![c].folder = Upwards(d)]
       /\ Else(<<uploaded, unlinked, crashed>>)

(* getSignedUrl, verifySignedUrl: a link opens up to and including its last second, also after the file is gone. *)
Sign(f) ==
    /\ f \in uploaded
    /\ link' = [link EXCEPT ![f] = now + LinkLife]
    /\ UNCHANGED <<folders, files, work, now, uploaded, unlinked, crashed, overlapped>>
Signed(f) == link[f] # NoFile /\ now <= link[f]
Pass ==
    /\ now < MaxNow /\ now' = now + 1
    /\ UNCHANGED <<folders, files, work, link, uploaded, unlinked, crashed, overlapped>>

(* getStream: access, then createReadStream, which opens the file on its own time.  A member of the tenant reads by
   the key alone.  Nobody listens to errors of the stream that is piped: one shuts the process down (server.js:87). *)
Read(c, f) ==
    /\ f \in uploaded
    /\ Begin(c, "read", f)
    /\ UNCHANGED <<folders, files, link, now, uploaded, unlinked, crashed>>
ReadByLink(c, f) == Signed(f) /\ Read(c, f)
AccessFile(c) ==
    /\ FileAt(c, "read", "first")
    /\ IF work[c].file \in files THEN Goes(c, "open") ELSE Leaves(c) \* 404
    /\ Else(<<folders, files, uploaded, unlinked, crashed>>)
OpenStream(c) ==
    /\ FileAt(c, "read", "open")
    /\ Leaves(c) /\ crashed' = (crashed \/ work[c].file \notin files)
    /\ Else(<<folders, files, uploaded, unlinked>>)

FilesNext ==
    \/ \E c \in Client, f \in File : Upload(c, f) \/ DeleteFile(c, f) \/ Read(c, f) \/ ReadByLink(c, f)
    \/ \E c \in Client : \/ EnsureDirectory(c) \/ WriteFile(c) \/ Stat(c) \/ Unlink(c) \/ ReadFolder(c)
                         \/ RemoveFolder(c) \/ AccessFile(c) \/ OpenStream(c)
    \/ \E f \in File : Sign(f)
    \/ Pass

FilesSpec == FilesInit /\ [][FilesNext]_fileVars

-----------------------------------------------------------------------------
(* Requests and links have the values the code gives them, and every folder and file has the folder
   it is in, as on any disk. *)
FilesTypeOK ==
    /\ \A d \in folders : d \in Folder /\ Above[d] \in folders \cup {Base}
    /\ \A f \in files : FolderOf[f] \in folders
    /\ uploaded \subseteq File /\ unlinked \subseteq File /\ files \subseteq File
    /\ work \in [Client -> Works \cup {NoFile}]
    /\ now \in 0..MaxNow /\ link \in [File -> 0..(MaxNow + LinkLife) \cup {NoFile}]

(* Tidying up after one file never takes another (cleanupEmptyDirectories, local-storage.provider.js:83). *)
UploadedStays == uploaded \ unlinked \subseteq files

(* When requests come one by one nothing but the folders of files is left behind (local-storage.provider.js:95). *)
TidyInTurn == ~overlapped /\ (\A c \in Client : work[c] = NoFile) => \A d \in folders : \E f \in files : d \in PathOf(FolderOf[f])

(* TLC refutes: that an upload finds the folder it has just made, and that a read never ends the process. *)
UploadFindsItsFolder == \A c \in Client : FileAt(c, "upload", "write") => work[c].folder \in folders
ReadsAreHarmless == ~crashed

=============================================================================
