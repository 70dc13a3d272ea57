----------------------------- MODULE FileUpload -----------------------------
(***************************************************************************)
(* Files that users drop on a session's view: the view sends every file in *)
(* chunks and then an input that announces them; the backend checks and    *)
(* forwards; the proxy's reader puts chunks and inputs into two channels,  *)
(* and its main loop takes from either, in any order.  Chunks carry no     *)
(* acknowledgement and are lost while the proxy is away; the input is      *)
(* stored and comes back (InputDelivery).  The channel of the inputs       *)
(* outlives a connection of the proxy, that of the chunks does not.        *)
(***************************************************************************)
EXTENDS Naturals, Sequences, SequencesExt, FiniteSets

CONSTANTS
  Uploads,       \* uploads, one file each
  Name,          \* the file each is written to: [Uploads -> names]
  TotalChunks,   \* the length of a file
  MaxBreaks,     \* bound: losses of the proxy's connection
  Failing        \* what may fail of the proxy's files: {"start", "chunk"} or a part,
                 \* for a file that cannot be created or written

ASSUME UploadAssumption == TotalChunks \in Nat \ {0} /\ MaxBreaks \in Nat

VARIABLES
  selected,         \* uploads whose files the user has dropped
  ws,               \* per upload: the messages on its view's socket
  pending_uploads,  \* the backend's: chunks received of an upload that is not complete
  stored,           \* announcements the backend stored and the proxy has not taken
  proxy,            \* the proxy's connection: channel, reader's output, uploads
  announced,        \* the proxy's channel of inputs
  disk,             \* what is in the files
  told,             \* the announcements the agent was given
  breaks            \* losses of the proxy's connection so far

uvars == <<selected, ws, pending_uploads, stored, proxy, announced, disk, told, breaks>>

Chunk(u, i) == [type |-> "chunk", upload |-> u, index |-> i]
Start(u) == [type |-> "start", upload |-> u]
Announce(u) == [type |-> "input", upload |-> u]

(* A connection of the proxy: what is on its way to it, what its reader has*)
(* read for the main loop, and the uploads it knows with the number of     *)
(* chunks each has received.                                               *)
Fresh == [up |-> TRUE, channel |-> <<>>, file_upload_rx |-> <<>>, active_uploads |-> <<>>]

UInit ==
  /\ selected = {} /\ ws = [u \in Uploads |-> <<>>]
  /\ pending_uploads = <<>> /\ stored = {} /\ proxy = Fresh /\ announced = <<>>
  /\ disk = [n \in {Name[u] : u \in Uploads} |-> <<>>] /\ told = {} /\ breaks = 0

With(f, u, n) == [x \in DOMAIN f \cup {u} |-> IF x = u THEN n ELSE f[x]]
Without(f, u) == [x \in DOMAIN f \ {u} |-> f[x]]

(* The view sends start, chunks and announcement over the socket it had    *)
(* when the files were dropped.                                            *)
FilesSelected(u) ==
  /\ u \notin selected
  /\ selected' = selected \cup {u}
  /\ ws' = [ws EXCEPT ![u] = <<Start(u)>> \o [i \in 1..TotalChunks |-> Chunk(u, i)]
                               \o <<Announce(u)>>]
  /\ UNCHANGED <<pending_uploads, stored, proxy, announced, disk, told, breaks>>

(* The view's socket is lost, and the rest of the upload with it.          *)
SocketLost(u) ==
  /\ ws[u] # <<>>
  /\ ws' = [ws EXCEPT ![u] = <<>>]
  /\ UNCHANGED <<selected, pending_uploads, stored, proxy, announced, disk, told, breaks>>

-----------------------------------------------------------------------------
(* The backend *)

(* To the proxy's channel.  What is queued for a proxy that is away does   *)
(* not survive its registration.                                           *)
send_to_session(m) ==
  proxy' = IF proxy.up THEN [proxy EXCEPT !.channel = Append(@, m)] ELSE proxy

handle_file_upload_start(u) ==
  /\ ws[u] # <<>> /\ Head(ws[u]).type = "start"
  /\ ws' = [ws EXCEPT ![u] = Tail(@)]
  /\ pending_uploads' = With(pending_uploads, u, 0)
  /\ send_to_session(Start(u))
  /\ UNCHANGED <<selected, stored, announced, disk, told, breaks>>

handle_file_upload_chunk(u) ==
  /\ ws[u] # <<>> /\ Head(ws[u]).type = "chunk"
  /\ ws' = [ws EXCEPT ![u] = Tail(@)]
  /\ u \in DOMAIN pending_uploads /\ Head(ws[u]).index <= TotalChunks
  /\ pending_uploads' = IF pending_uploads[u] + 1 >= TotalChunks
                        THEN Without(pending_uploads, u)
                        ELSE With(pending_uploads, u, pending_uploads[u] + 1)
  /\ send_to_session(Head(ws[u]))
  /\ UNCHANGED <<selected, stored, announced, disk, told, breaks>>

handle_announcement(u) ==
  /\ ws[u] # <<>> /\ Head(ws[u]).type = "input"
  /\ ws' = [ws EXCEPT ![u] = Tail(@)]
  /\ stored' = stored \cup {u}
  /\ send_to_session(Announce(u))
  /\ UNCHANGED <<selected, pending_uploads, announced, disk, told, breaks>>

-----------------------------------------------------------------------------
(* The proxy *)

ReaderReads ==
  /\ proxy.channel # <<>>
  /\ LET m == Head(proxy.channel) IN
     IF m.type = "input"
     THEN /\ proxy' = [proxy EXCEPT !.channel = Tail(@)]
          /\ announced' = Append(announced, m.upload)
          /\ stored' = stored \ {m.upload}
     ELSE /\ proxy' = [proxy EXCEPT !.channel = Tail(@),
                                    !.file_upload_rx = Append(@, m)]
          /\ UNCHANGED <<announced, stored>>
  /\ UNCHANGED <<selected, ws, pending_uploads, disk, told, breaks>>

(* File::create truncates; every upload writes at its own position, past a *)
(* gap when another one has truncated the file meanwhile.                  *)
Written(content, position, chunk) ==
  [i \in 1..(IF position > Len(content) THEN position ELSE Len(content)) |->
     CASE i = position -> chunk
       [] i # position /\ i <= Len(content) -> content[i]
       [] OTHER -> [type |-> "gap"]]

UploadEvent(m) ==
  CASE m.type = "start" ->
         /\ disk' = [disk EXCEPT ![Name[m.upload]] = <<>>]
         /\ proxy' = [proxy EXCEPT !.file_upload_rx = Tail(@),
                                   !.active_uploads = With(@, m.upload, 0)]
    [] m.type = "chunk" /\ m.upload \notin DOMAIN proxy.active_uploads ->
         /\ proxy' = [proxy EXCEPT !.file_upload_rx = Tail(@)]
         /\ UNCHANGED disk
    [] OTHER ->
         LET received == proxy.active_uploads[m.upload] + 1 IN
         /\ disk' = [disk EXCEPT ![Name[m.upload]] = Written(@, received, m)]
         /\ proxy' = [proxy EXCEPT !.file_upload_rx = Tail(@),
              !.active_uploads = IF received >= TotalChunks THEN Without(@, m.upload)
                                 ELSE With(@, m.upload, received)]

(* The error is logged.  An upload without a file is not entered; one with *)
(* a chunk that was not written goes on, and its next chunk comes there.   *)
FileFails(m) ==
  /\ m.type \in Failing
  /\ proxy' = [proxy EXCEPT !.file_upload_rx = Tail(@)]
  /\ UNCHANGED disk

handle_file_upload ==
  /\ proxy.file_upload_rx # <<>>
  /\ LET m == Head(proxy.file_upload_rx) IN UploadEvent(m) \/ FileFails(m)
  /\ UNCHANGED <<selected, ws, pending_uploads, stored, announced, told, breaks>>

MainTakesInput ==
  /\ proxy.up /\ announced # <<>>
  /\ told' = told \cup {Head(announced)}
  /\ announced' = Tail(announced)
  /\ UNCHANGED <<selected, ws, pending_uploads, stored, proxy, disk, breaks>>

Disconnects ==
  /\ proxy.up /\ breaks < MaxBreaks
  /\ breaks' = breaks + 1
  /\ proxy' = [proxy EXCEPT !.up = FALSE, !.channel = <<>>, !.file_upload_rx = <<>>]
  /\ UNCHANGED <<selected, ws, pending_uploads, stored, announced, disk, told>>

\* Mutant: the uploads a connection knew are kept for the next.
ReconnectsMutant ==
  /\ ~proxy.up
  /\ \E order \in SetToSeqs(stored) :
       proxy' = [proxy EXCEPT !.up = TRUE,
                              !.channel = [i \in DOMAIN order |-> Announce(order[i])]]
  /\ UNCHANGED <<selected, ws, pending_uploads, stored, announced, disk, told, breaks>>

(* A new connection, to which the stored announcements are replayed.       *)
Reconnects ==
  /\ ~proxy.up
  /\ \E order \in SetToSeqs(stored) :
       proxy' = [Fresh EXCEPT !.channel = [i \in DOMAIN order |-> Announce(order[i])]]
  /\ UNCHANGED <<selected, ws, pending_uploads, stored, announced, disk, told, breaks>>

UNext ==
  \/ \E u \in Uploads : FilesSelected(u) \/ SocketLost(u) \/ handle_file_upload_start(u)
       \/ handle_file_upload_chunk(u) \/ handle_announcement(u)
  \/ ReaderReads \/ handle_file_upload \/ MainTakesInput \/ Disconnects \/ Reconnects

USpec == UInit /\ [][UNext]_uvars

-----------------------------------------------------------------------------
Content(u) == [i \in 1..TotalChunks |-> Chunk(u, i)]

\* A file that was received never has a gap or a chunk out of its place: what a
\* lost connection of the proxy leaves is the beginning of the file.
FilesAreBeginnings ==
  \A u \in Uploads : IsPrefix(disk[Name[u]], Content(u))

\* The files are there when the agent is told of them.
AnnouncedIsThere == \A u \in told : disk[Name[u]] = Content(u)

=============================================================================
