------------------------------- MODULE Upload -------------------------------
(***************************************************************************)
(* Uploads of one user to one album: the URL, the completion the frontend  *)
(* reports, and the worker that adds the picture to the album.  What is    *)
(* known of a file in between is in redis for a time.  The reserve of the  *)
(* day is a grant metric (module Quota): here a request may find it spent  *)
(* at any time.  Calling the worker's task is left to the application; it  *)
(* is run once for each call of func_worker.                               *)
(***************************************************************************)
EXTENDS Integers, FiniteSets

CONSTANTS
    Encoder,     \* workers
    File,      \* ids of files
    Video,     \* those that are videos; the others are photos
    AlbumSize, \* the grant album_size
    Absent,    \* no cover
    MaxTold,   \* bound: completions reported
    MaxFails   \* bound: failures of redis, the database or storage

ASSUME UploadAssumption ==
    /\ IsFiniteSet(Encoder)
    /\ Video \subseteq File
    /\ AlbumSize \in Nat \ {0}
    /\ MaxTold \in Nat /\ MaxFails \in Nat

VARIABLES
    meta,     \* files whose metadata is in redis
    asking,   \* files whose request found room in the album and is not answered
    given,    \* files that were given a URL
    tasks,    \* per file: calls of the task that wait
    told,     \* completions reported so far
    job,      \* per worker: what it does
    pictures, \* rows of Picture
    album,    \* [file, rank] of AlbumContent
    cover,    \* the cover of the album, or Absent
    broken,   \* failures so far
    others    \* how many other uploads were open when the album last had room

uploadVars == <<meta, asking, given, tasks, told, job, pictures, album, cover,
                broken, others>>

On(w, step) == job[w].step = step
Turn(w, step) == job' = [job EXCEPT ![w].step = step]
NoJob == [step |-> "idle"]

UploadInit ==
    /\ meta = {} /\ asking = {} /\ given = {}
    /\ tasks = [f \in File |-> 0]
    /\ told = 0
    /\ job = [w \in Encoder |-> NoJob]
    /\ pictures = {} /\ album = {} /\ cover = Absent
    /\ broken = 0 /\ others = 0

-----------------------------------------------------------------------------
(* StorageAPI *)

\* Files that have a URL, or will, and may still come into the album.
InAlbum(f) == \E c \in album : c.file = f
Open == {f \in asking \cup given : ~InAlbum(f)}

LooseRoom == Cardinality(album) <= AlbumSize         \* mutant: > for >=
Room == Cardinality(album) < AlbumSize

\* get_upload_url: refused at once when the album is full.
AskUrl(f) ==
    /\ f \notin asking \cup given
    /\ Room
    /\ asking' = asking \cup {f}
    /\ others' = Cardinality(Open)
    /\ UNCHANGED <<meta, given, tasks, told, job, pictures, album, cover, broken>>

\* Without permission, with the reserve of the day spent, or by the vendor.
RefuseUrl(f) ==
    /\ f \in asking
    /\ asking' = asking \ {f}
    /\ UNCHANGED <<meta, given, tasks, told, job, pictures, album, cover, broken, others>>

\* The vendor's URL is given; the metadata may fail to be stored.
GiveUrl(f, kept) ==
    /\ f \in asking
    /\ ~kept => broken < MaxFails
    /\ broken' = IF kept THEN broken ELSE broken + 1
    /\ asking' = asking \ {f}
    /\ given' = given \cup {f}
    /\ meta' = IF kept THEN meta \cup {f} ELSE meta
    /\ UNCHANGED <<tasks, told, job, pictures, album, cover, others>>

\* upload_complete with 'done', reported once or again: the task is called.  The
\* reserve is counted after that; nothing depends on the answer.
Complete(f) ==
    /\ f \in meta
    /\ told < MaxTold /\ told' = told + 1
    /\ tasks' = [tasks EXCEPT ![f] = @ + 1]
    /\ UNCHANGED <<meta, asking, given, job, pictures, album, cover, broken, others>>

\* The metadata is kept for a time.
Forget(f) ==
    /\ f \in meta
    /\ meta' = meta \ {f}
    /\ UNCHANGED <<asking, given, tasks, told, job, pictures, album, cover, broken, others>>

-----------------------------------------------------------------------------
(* MediaProcessing *)

\* __init__; without metadata photo and video raise.
Take(w, f) ==
    /\ On(w, "idle") /\ tasks[f] > 0
    /\ tasks' = [tasks EXCEPT ![f] = @ - 1]
    /\ IF f \in meta
       THEN job' = [job EXCEPT ![w] = [step |-> "insert", file |-> f]]
       ELSE UNCHANGED job
    /\ UNCHANGED <<meta, asking, given, told, pictures, album, cover, broken, others>>

\* The object was fetched; the row is committed.  Its id is taken when another
\* task has inserted it: that task ends.
Taken(w) == job[w].file \in pictures
Insert(w) ==
    /\ On(w, "insert") /\ ~Taken(w)
    /\ pictures' = pictures \cup {job[w].file}
    /\ Turn(w, "read")
    /\ UNCHANGED <<meta, asking, given, tasks, told, album, cover, broken, others>>

ReadAlbum(w) ==
    /\ On(w, "read")
    /\ job' = [job EXCEPT ![w] =
          [step |-> "link", file |-> job[w].file, rank |-> Cardinality(album) + 1,
           covers |-> job[w].file \notin Video /\ (album = {} \/ cover = Absent)]]
    /\ UNCHANGED <<meta, asking, given, tasks, told, pictures, album, cover, broken, others>>

\* The first photo becomes the cover; videos are added without one.
AddToAlbum(w) ==
    LET f == job[w].file IN
    /\ On(w, "link")
    /\ album' = album \cup {[file |-> f, rank |-> job[w].rank]}
    /\ cover' = IF job[w].covers THEN f ELSE cover
    /\ job' = [job EXCEPT ![w] = [step |-> IF f \in Video THEN "end" ELSE "scale", file |-> f]]
    /\ UNCHANGED <<meta, asking, given, tasks, told, pictures, broken, others>>

\* The other sizes of a photo are made and stored; its original may be deleted.
Scale(w) ==
    /\ On(w, "scale")
    /\ Turn(w, "end")
    /\ UNCHANGED <<meta, asking, given, tasks, told, pictures, album, cover, broken, others>>

\* __del__, after an exception too.
Drop(w) ==
    /\ On(w, "end")
    /\ meta' = meta \ {job[w].file}
    /\ job' = [job EXCEPT ![w] = NoJob]
    /\ UNCHANGED <<asking, given, tasks, told, pictures, album, cover, broken, others>>

\* The database refuses the second row of a file.
Reject(w) ==
    /\ On(w, "insert") /\ Taken(w)
    /\ Turn(w, "end")
    /\ UNCHANGED <<meta, asking, given, tasks, told, pictures, album, cover, broken, others>>

\* MediaUploadError or a failure of the database, before the end.
Raises(w) ==
    /\ job[w].step \in {"insert", "read", "link", "scale"}
    /\ broken < MaxFails /\ broken' = broken + 1
    /\ Turn(w, "end")
    /\ UNCHANGED <<meta, asking, given, tasks, told, pictures, album, cover, others>>

\* Every file is given, and nothing waits.
Uploaded ==
    /\ \A w \in Encoder : On(w, "idle")
    /\ asking = {}
    /\ UNCHANGED uploadVars

UploadNext ==
    \/ \E f \in File :
         \/ AskUrl(f) \/ RefuseUrl(f) \/ Forget(f) \/ Complete(f)
         \/ \E kept \in BOOLEAN : GiveUrl(f, kept)
         \/ \E w \in Encoder : Take(w, f)
    \/ \E w \in Encoder : \/ Insert(w) \/ ReadAlbum(w) \/ AddToAlbum(w) \/ Scale(w)
                        \/ Reject(w) \/ Drop(w) \/ Raises(w)
    \/ Uploaded

UploadSpec == UploadInit /\ [][UploadNext]_uploadVars

-----------------------------------------------------------------------------
(***************************************************************************)
(* "album is full": get_upload_url looks at the album before it gives the  *)
(* URL, and long before the picture comes into it.  The album gets no      *)
(* larger than its size and the uploads that were open, with a URL or      *)
(* about to get one, when a request last found room in it; every file      *)
(* comes into it once, however often its completion is reported; and no    *)
(* more pictures have the same rank than there are workers.                *)
(***************************************************************************)
UploadsBounded ==
    /\ Cardinality(album) <= AlbumSize + others
    /\ \A c, d \in album : c.file = d.file => c = d
    /\ \A c \in album : Cardinality({d \in album : d.rank = c.rank}) <= Cardinality(Encoder)
=============================================================================
