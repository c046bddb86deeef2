----------------------------- MODULE FileUpdates -----------------------------
(***************************************************************************)
(* get-file-updates: the progress, the priority and the open mode of the   *)
(* files of a torrent, as far as they changed since the frame a client     *)
(* has.  A call fetches the fields it is asked for before it takes         *)
(* m_file_mutex.  There is no horizon: files do not come and go.           *)
(***************************************************************************)
EXTENDS HistoryCache

CONSTANTS
  File,            \* the files of a torrent
  FileMasks,       \* what a client may ask for: sets of fields
  MaxFileChanges   \* bounds how often a file changes

FileField == {"name", "progress", "priority", "open_mode"}

ASSUME FileUpdatesAssumption ==
  /\ FileMasks \subseteq SUBSET FileField
  /\ MaxFileChanges \in Nat

VARIABLES
  files,             \* libtorrent: the fields of the files
  open,              \* those it has open
  metadata,          \* the torrents whose files are known
  fileChanges,       \* how often a file changed
  fileMask,          \* the fields each client asks for
  fetchedFiles,      \* what the call of each client fetched, while it waits for the mutex
  m_file_histories,  \* the cache, the torrent used last first
  cells              \* the table of the page of each client

fileSource == <<files, open, metadata, fileChanges>>
fileOwn == <<fileSource, fileMask, fetchedFiles, m_file_histories, cells>>
fileVars == <<fileOwn, pollVars>>

\* The fields of a file_history_entry before the first update; 0 is no
\* progress, the default priority, and the mode of a file that is closed or
\* open for reading only.
Dynamic == FileField \ {"name"}
NewFile == [x \in Dynamic |-> 0]
NotFetched == [ih |-> "none"]
Empty == [x \in {} |-> 0]

IsFileHistory(h) ==
  /\ h.m_frame \in Nat
  /\ h.m_files \in [File -> [Dynamic -> [value: {0, 1}, frame: Nat]]]
  /\ h.m_open_files \subseteq File

FileTypeOK ==
  /\ PollTypeOK
  /\ files \in [Torrent -> [File -> [Dynamic -> {0, 1}]]]
  /\ open \in [Torrent -> SUBSET File] /\ metadata \subseteq Torrent
  /\ IsCache(m_file_histories)
  /\ \A i \in DOMAIN m_file_histories : IsFileHistory(m_file_histories[i])
  /\ fileMask \in [Client -> FileMasks]
  /\ \A c \in Client : fetchedFiles[c] = NotFetched \/ fetchedFiles[c].ih \in Torrent
  /\ \A c \in Client, t \in Torrent, i \in File : DOMAIN cells[c][t][i] \subseteq fileMask[c]

FileInit ==
  /\ PollInit
  /\ files = [t \in Torrent |-> [i \in File |-> NewFile]]
  /\ open = [t \in Torrent |-> {}]
  /\ metadata = Torrent \ Active
  /\ fileChanges = 0
  /\ fileMask \in [Client -> FileMasks]
  /\ fetchedFiles = [c \in Client |-> NotFetched]
  /\ m_file_histories = <<>>
  /\ cells = [c \in Client |-> [t \in Torrent |-> [i \in File |-> Empty]]]

-----------------------------------------------------------------------------
(* file_history                                                            *)

NewFileHistory(t) ==
  [m_ih |-> t, m_frame |-> 1, m_open_files |-> {},
   m_files |-> [i \in File |-> [x \in Dynamic |-> [value |-> 0, frame |-> 1]]]]

\* The mode of a file that was opened or closed is stamped whether it differs
\* or not; that of a closed file is reset.
OpenMode(h, i, now, f) ==
  LET was == i \in h.m_open_files
      is == i \in now.open
      mode == IF is THEN now.files[i]["open_mode"] ELSE 0
  IN  IF was = is /\ h.m_files[i]["open_mode"].value = mode THEN h.m_files[i]["open_mode"]
      ELSE [value |-> mode, frame |-> f]

\* Mutant: the frame is the one before the update is counted.
Changed_early(entry, value, f) ==
  IF entry.value = value THEN entry ELSE [value |-> value, frame |-> f - 1]

Changed(entry, value, f) ==
  IF entry.value = value THEN entry ELSE [value |-> value, frame |-> f]

\* What the call did not fetch stays as it is.
FileUpdate(h, now, mask) ==
  LET f == h.m_frame + 1 IN
  [h EXCEPT !.m_frame = f,
            !.m_open_files = IF "open_mode" \in mask THEN now.open ELSE @,
            !.m_files = [i \in File |-> [x \in Dynamic |->
               CASE x \notin mask -> @[i][x]
                 [] x = "open_mode" /\ x \in mask -> OpenMode(h, i, now, f)
                 [] OTHER -> Changed(@[i][x], now.files[i][x], f)]]]

\* The fields to send of a file.
FileQuery(h, i, since, mask) ==
  {x \in mask : IF x = "name" THEN since = 0 ELSE h.m_files[i][x].frame > since}

-----------------------------------------------------------------------------
(* libtorrent.                                                             *)

\* A magnet link gets its metadata.
GotMetadata(t) ==
  /\ t \notin metadata
  /\ metadata' = metadata \cup {t}
  /\ UNCHANGED <<files, open, fileChanges, fileMask, fetchedFiles, m_file_histories, cells, pollVars>>

FileChanges(t, i) ==
  /\ t \in metadata /\ fileChanges < MaxFileChanges
  /\ fileChanges' = fileChanges + 1
  /\ \/ /\ \E x \in Dynamic \ {"open_mode"} : files' = [files EXCEPT ![t][i][x] = 1 - @]
        /\ UNCHANGED open
     \/ /\ i \notin open[t] /\ open' = [open EXCEPT ![t] = @ \cup {i}]
        /\ \E mode \in {0, 1} : files' = [files EXCEPT ![t][i]["open_mode"] = mode]
     \/ /\ i \in open[t] /\ open' = [open EXCEPT ![t] = @ \ {i}]
        /\ files' = [files EXCEPT ![t][i]["open_mode"] = 0]
  /\ UNCHANGED <<metadata, fileMask, fetchedFiles, m_file_histories, cells, pollVars>>

-----------------------------------------------------------------------------
(* get_file_updates                                                        *)

\* With no metadata the answer is an empty list with the client's own frame.
FetchFiles(c, t) ==
  /\ fetchedFiles[c] = NotFetched /\ t \in metadata
  /\ polls[t] + Cardinality({d \in Client : fetchedFiles[d].ih = t}) < MaxPolls[t]
  /\ fetchedFiles' = [fetchedFiles EXCEPT ![c] = [ih |-> t, files |-> files[t], open |-> open[t]]]
  /\ UNCHANGED <<fileSource, fileMask, m_file_histories, cells, pollVars>>

AnswerFiles(c, t) ==
  /\ fetchedFiles[c] # NotFetched /\ fetchedFiles[c].ih = t
  /\ LET mask == fileMask[c]
         h == FileUpdate(HistoryOf(m_file_histories, t, NewFileHistory(t)), fetchedFiles[c], mask)
         Value(i, x) == IF x = "name" THEN i ELSE h.m_files[i][x].value
         sent == [i \in File |-> FileQuery(h, i, frame[c][t], mask)]
     IN  /\ Answered(m_file_histories, c, t, h.m_frame, frame[c][t] = 0)
         /\ m_file_histories' = Used(m_file_histories, h)
         /\ cells' = [cells EXCEPT ![c][t] = [i \in File |->
              [x \in DOMAIN @[i] \cup sent[i] |-> IF x \in sent[i] THEN Value(i, x) ELSE @[i][x]]]]
  /\ fetchedFiles' = [fetchedFiles EXCEPT ![c] = NotFetched]
  /\ UNCHANGED <<fileSource, fileMask>>

FileNext ==
  \/ \E t \in Active : GotMetadata(t) \/ \E i \in File : FileChanges(t, i)
  \/ \E c \in Client, t \in Torrent : FetchFiles(c, t) \/ AnswerFiles(c, t)

-----------------------------------------------------------------------------

\* After an answer, a client whose first answer was from the same history shows
\* each field it asks for as the call fetched it: also when another client, that
\* asks for other fields, moved the frames, and when two calls were answered in
\* another order than they fetched.
FilesShown ==
  [][\A c \in Client, t \in Torrent :
       AnswerFiles(c, t) /\ SameLife(c, t) =>
         \A i \in File : \A x \in fileMask[c] \ {"name"} :
           /\ x \in DOMAIN cells'[c][t][i]
           /\ cells'[c][t][i][x] = fetchedFiles[c].files[i][x]]_fileVars
=============================================================================
