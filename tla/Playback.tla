------------------------------- MODULE Playback -------------------------------
(***************************************************************************)
(* Playing the files of one download while libtorrent fetches them: the    *)
(* stream request of downloads_endpoint.py (one coroutine per connection), *)
(* the Stream of download_manager/stream.py that all of them share, and    *)
(* the priorities they set in libtorrent.                                  *)
(*                                                                         *)
(* A file is a row of FileLen pieces: offsets are counted in pieces and    *)
(* files begin with a piece of their own.                                  *)
(***************************************************************************)
EXTENDS Integers, FiniteSetsExt

CONSTANTS
    Reader,     \* connections that are open at the same time
    NumFiles,   \* files of the torrent, numbered from 1
    FileLen,    \* pieces of a file
    Buffer,     \* pieces of the buffer ahead of a cursor
    Starts,     \* offsets at which players begin
    MaxEvents   \* bound on requests, stops, removals and failed rechecks

ASSUME SizeAssumption ==
    /\ NumFiles \in Nat \ {0} /\ FileLen \in Nat \ {0} /\ Buffer \in Nat
    /\ Starts \subseteq 1..FileLen /\ MaxEvents \in Nat

File  == 1..NumFiles
Piece == 1..(NumFiles * FileLen)
None  == 0

VARIABLES
    have,           \* pieces that are complete, by the last status of libtorrent
    runs,           \* that status is DOWNLOADING or SEEDING
    gone,           \* its torrent has left the session: the status changes no more
    listed,         \* DownloadManager.downloads has the download
    streamed,       \* Download.stream is not None
    file_index,     \* Stream.file_index and file_name
    cursor_pieces,  \* Stream.cursor_pieces: start offset -> pieces, or {None}: no entry
    priority,       \* priority of each piece in libtorrent
    reader,         \* the connections
    events

torrent_vars  == <<have, runs, gone, listed, streamed>>
playback_vars == <<have, runs, gone, listed, streamed, file_index, cursor_pieces, priority,
                   reader, events>>

NoEntry    == {None}
IdleReader == [at |-> "idle", want |-> 1, start |-> 1, pos |-> 1, file |-> None, need |-> {}]

\* byte_to_piece, iter_pieces and bytes_to_pieces: within the file that the Stream is on
\* at the time, whichever file the connection is for.
ByteToPiece(f, o)     == (f - 1) * FileLen + o
PiecesOf(f)           == ByteToPiece(f, 1)..ByteToPiece(f, FileLen)
BugBytesToPieces(f, a, b) == ByteToPiece(f, a)..ByteToPiece(f, b)
BytesToPieces(f, a, b)    == {p \in PiecesOf(f) : ByteToPiece(f, a) <= p /\ p <= ByteToPiece(f, b)}
Missing(f)            == PiecesOf(f) \ have

\* The first missing pieces from an offset on: what a cursor asks for.
Ahead(f, o) ==
    {p \in Missing(f) : /\ p >= ByteToPiece(f, o)
                        /\ Cardinality({q \in Missing(f) : q >= ByteToPiece(f, o) /\ q < p}) < Buffer}

\* The header and footer that Stream.enable waits for.
HeaderFooter(f) == {ByteToPiece(f, 1), ByteToPiece(f, FileLen)}

Entries(cursors) == {o \in DOMAIN cursors : cursors[o] # NoEntry}
-----------------------------------------------------------------------------
(***************************************************************************)
(* Priorities.                                                             *)
(***************************************************************************)

\* update_priorities: of the missing pieces of the file those under a cursor get a high
\* priority (7 stands for 7 to 2, by the distance), the others the lowest.
UpdatePriorities(cursors) ==
    [p \in Piece |->
        IF p \notin Missing(file_index) THEN priority[p]
        ELSE IF \E o \in Entries(cursors) : p \in cursors[o] THEN 7 ELSE 1]

\* enable: what is needed first, and everything else of the file after it.
BufferPriorities(f, need) ==
    [p \in Piece |-> IF p \notin Missing(f) THEN priority[p] ELSE IF p \in need THEN 7 ELSE 1]

\* reset_priorities.  The list it hands to libtorrent has one entry per given piece, and
\* libtorrent applies a list from piece 0 on.
ResetAll         == [p \in Piece |-> 4]
ResetFirst(n)    == [p \in Piece |-> IF p <= n THEN 4 ELSE priority[p]]
-----------------------------------------------------------------------------
(***************************************************************************)
(* A connection, from one await to the next.  The operators below continue *)
(* the coroutine of connection c, whose record has become r.               *)
(***************************************************************************)
Put(c, r) == reader' = [reader EXCEPT ![c] = r]

\* StreamReader.read: ends without data when the cursor of its start offset is gone,
\* otherwise it seeks (the cursor moves on) and waits for the piece and the one after.
BugNeed(r) == {}
Need(r)    == BytesToPieces(file_index, r.pos, r.pos + 1)

Registered(r)    == cursor_pieces[r.start] # NoEntry

Read(c, r, registered) ==
    IF ~registered
    THEN /\ Put(c, [r EXCEPT !.at = "closing"])
         /\ UNCHANGED <<cursor_pieces, priority>>
    ELSE LET cursors == [cursor_pieces EXCEPT ![r.start] = Ahead(file_index, r.pos)]
         IN  /\ cursor_pieces' = cursors
             /\ priority' = UpdatePriorities(cursors)
             /\ Put(c, IF Need(r) \subseteq have
                       THEN [r EXCEPT !.at = "writing", !.pos = @ + 1]
                       ELSE [r EXCEPT !.at = "reading", !.need = Need(r)])

\* StreamReader.open: the file the Stream is on exists on disk when any of it is there.
\* All cursors are forgotten, to end the other connections.
Exists(f) == PiecesOf(f) \cap have # {}
Forgotten    == [o \in Starts |-> NoEntry]
Open(c, r, f) ==
    IF Exists(f)
    THEN /\ Put(c, [r EXCEPT !.at = "preparing", !.file = f, !.need = {}])
         /\ cursor_pieces' = Forgotten
    ELSE /\ Put(c, [r EXCEPT !.at = "opening", !.need = {}])
         /\ UNCHANGED cursor_pieces

\* Stream.enable once the download runs, then open unless it has to wait for pieces.
\* Without a torrent in the session there are no priorities to set, which raises.
Enable(c, r, f) ==
    IF gone THEN Put(c, IdleReader) /\ UNCHANGED <<cursor_pieces, priority>>
    ELSE IF HeaderFooter(f) \subseteq have
         THEN Open(c, r, f) /\ UNCHANGED priority
         ELSE /\ Put(c, [r EXCEPT !.at = "buffering", !.need = HeaderFooter(f)])
              /\ priority' = BufferPriorities(f, HeaderFooter(f))
              /\ UNCHANGED cursor_pieces

\* DownloadsEndpoint.stream and TorrentStreamResponse.prepare up to the first await: the
\* Stream moves to the file and the download is resumed.
Request(c, f, o) ==
    /\ reader[c].at = "idle" /\ listed /\ events < MaxEvents
    /\ file_index' = f /\ streamed' = TRUE
    /\ events' = events + 1
    /\ LET r == [IdleReader EXCEPT !.want = f, !.start = o, !.pos = o]
       IN  IF runs THEN Enable(c, r, f)
           ELSE /\ Put(c, [r EXCEPT !.at = "starting"])
                /\ UNCHANGED <<cursor_pieces, priority>>
    /\ UNCHANGED <<have, runs, gone, listed>>

\* The polling loops of enable and open, once a second.
Started(c) ==
    /\ reader[c].at = "starting" /\ runs
    /\ Enable(c, reader[c], file_index)
    /\ UNCHANGED <<torrent_vars, file_index, events>>

Buffered(c) ==
    /\ reader[c].at = "buffering" /\ reader[c].need \subseteq have
    /\ Open(c, reader[c], file_index)
    /\ UNCHANGED <<torrent_vars, file_index, priority, events>>

Opened(c) ==
    /\ reader[c].at = "opening" /\ Exists(file_index)
    /\ Open(c, reader[c], file_index)
    /\ UNCHANGED <<torrent_vars, file_index, priority, events>>

\* The headers were sent: seek to the start, which registers the cursor, and read.
Prepared(c) ==
    /\ reader[c].at = "preparing"
    /\ Read(c, reader[c], TRUE)
    /\ UNCHANGED <<torrent_vars, file_index, events>>

\* The pieces are there: a piece length of the file is read and written to the client.
ReadDone(c) ==
    /\ reader[c].at = "reading" /\ reader[c].need \subseteq have
    /\ Put(c, [reader[c] EXCEPT !.at = "writing", !.pos = @ + 1, !.need = {}])
    /\ UNCHANGED <<torrent_vars, file_index, cursor_pieces, priority, events>>

\* The client took it: the next read, until everything is sent.
Written(c) ==
    /\ reader[c].at = "writing"
    /\ IF reader[c].pos > FileLen
       THEN /\ Put(c, [reader[c] EXCEPT !.at = "closing"])
            /\ UNCHANGED <<cursor_pieces, priority>>
       ELSE Read(c, reader[c], Registered(reader[c]))
    /\ UNCHANGED <<torrent_vars, file_index, events>>

\* The client has gone: writing raises, and prepare's finally clause closes the reader.
Disconnected(c) ==
    /\ reader[c].at \in {"preparing", "writing"}
    /\ Put(c, [reader[c] EXCEPT !.at = "closing"])
    /\ UNCHANGED <<torrent_vars, file_index, cursor_pieces, priority, events>>

\* StreamReader.close, in a thread of the executor.
BugUnregistered(r) == cursor_pieces
Unregistered(r)    == [cursor_pieces EXCEPT ![r.start] = NoEntry]
Close(c) ==
    LET r == reader[c]
    IN  /\ r.at = "closing"
        /\ cursor_pieces' = Unregistered(r)
        /\ IF cursor_pieces[r.start] \in {NoEntry, {}}
           THEN UNCHANGED priority
           ELSE priority' = ResetFirst(Cardinality(cursor_pieces[r.start]))
        /\ Put(c, IdleReader)
        /\ UNCHANGED <<torrent_vars, file_index, events>>
-----------------------------------------------------------------------------
(***************************************************************************)
(* The download.                                                           *)
(***************************************************************************)

\* libtorrent fetches a piece of a download that runs.
PieceFinished ==
    /\ runs /\ ~gone
    /\ \E p \in Piece \ have : have' = have \cup {p}
    /\ UNCHANGED <<runs, gone, listed, streamed, file_index, cursor_pieces, priority, reader, events>>

\* A recheck finds that a piece on disk is bad.
PieceLost ==
    /\ ~gone /\ events < MaxEvents
    /\ \E p \in have : have' = have \ {p}
    /\ events' = events + 1
    /\ UNCHANGED <<runs, gone, listed, streamed, file_index, cursor_pieces, priority, reader>>

\* Stream.close: as part of Download.stop and Download.shutdown.
StreamClosed ==
    /\ cursor_pieces' = Forgotten
    /\ priority' = ResetAll

Stop ==
    /\ runs /\ ~gone /\ events < MaxEvents
    /\ StreamClosed
    /\ runs' = FALSE
    /\ events' = events + 1
    /\ UNCHANGED <<have, gone, listed, streamed, file_index, reader>>

\* Download.resume reaches libtorrent and the status follows.
Resumed ==
    /\ ~runs /\ ~gone /\ \E c \in Reader : reader[c].at # "idle"
    /\ runs' = TRUE
    /\ UNCHANGED <<have, gone, listed, streamed, file_index, cursor_pieces, priority, reader, events>>

\* remove_download: the torrent leaves the session, then Download.shutdown closes the
\* Stream once more.  When libtorrent has dropped the torrent by then the list of file
\* priorities is empty: the assignment to its entry raises, before the download is unlisted.
Remove ==
    /\ listed /\ events < MaxEvents
    /\ IF streamed /\ ~gone THEN StreamClosed
       ELSE UNCHANGED <<cursor_pieces, priority>>
    /\ gone' = TRUE
    /\ \E dropped \in {gone, TRUE} : listed' = (streamed /\ dropped)
    /\ events' = events + 1
    /\ UNCHANGED <<have, runs, file_index, streamed, reader>>

PlaybackInit ==
    /\ have = {} /\ runs \in BOOLEAN /\ gone = FALSE
    /\ listed = TRUE /\ streamed = FALSE
    /\ file_index = 1 /\ cursor_pieces = Forgotten
    /\ priority = [p \in Piece |-> 4]
    /\ reader = [c \in Reader |-> IdleReader] /\ events = 0

Steps(c) == \/ Started(c) \/ Buffered(c) \/ Opened(c) \/ Prepared(c)
            \/ ReadDone(c) \/ Written(c) \/ Close(c)

PlaybackNext ==
    \/ \E c \in Reader : \/ \E f \in File, o \in Starts : Request(c, f, o)
                         \/ Steps(c) \/ Disconnected(c)
    \/ PieceFinished \/ PieceLost \/ Stop \/ Resumed \/ Remove

\* Polling loops go on, clients read what they are sent, and a download that runs makes
\* progress.
PlaybackFairness ==
    /\ \A c \in Reader : WF_playback_vars(Steps(c))
    /\ WF_playback_vars(PieceFinished)

PlaybackSpec     == PlaybackInit /\ [][PlaybackNext]_playback_vars
PlaybackFairSpec == PlaybackSpec /\ PlaybackFairness
-----------------------------------------------------------------------------
(***************************************************************************)
(* Properties.                                                             *)
(***************************************************************************)

\* Every variable keeps its shape.
PlaybackTypeOK ==
    /\ have \subseteq Piece /\ runs \in BOOLEAN /\ gone \in BOOLEAN /\ listed \in BOOLEAN
    /\ streamed \in BOOLEAN /\ file_index \in File
    /\ cursor_pieces \in [Starts -> (SUBSET Piece) \cup {NoEntry}]
    /\ priority \in [Piece -> {1, 4, 7}]
    /\ reader \in [Reader -> [at : {"idle", "starting", "buffering", "opening", "preparing",
                                    "reading", "writing", "closing"},
                              want : File, start : Starts \cup {1}, pos : 1..(FileLen + 1),
                              file : File \cup {None}, need : SUBSET Piece]]

\* The Stream is on the file of the connection; or it was when the read began that the
\* connection is in.
OnFile(c) == IF reader[c].at = "reading" THEN reader[c].need \subseteq PiecesOf(reader[c].file)
             ELSE file_index = reader[c].file

\* What a player is sent was complete when it was read, also when pieces get lost in a
\* recheck and other players seek. That the Stream is back on the file by then is not
\* enough: TLC finds a read that waited for pieces of the file of another request.
ReadsAreComplete ==
    [][\A c \in Reader :
          reader'[c].pos = reader[c].pos + 1 /\ OnFile(c)
            => ByteToPiece(reader[c].file, reader[c].pos) \in have]_playback_vars

\* A cursor belongs to an open connection: whichever way a connection ends, it leaves
\* nothing behind that keeps pieces of the file in front.
NoOrphanCursor ==
    \A o \in Entries(cursor_pieces) :
        \E c \in Reader : reader[c].start = o /\ reader[c].at \in {"reading", "writing", "closing"}

\* Every connection comes to its end while the download runs.
ConnectionsEnd == \A c \in Reader : []<>(reader[c].at = "idle" \/ ~runs \/ gone)

\* "We allow only 1 connection at a time."
OneConnection == Cardinality(Entries(cursor_pieces)) <= 1

\* "File-like object that reads a file from a torrent": a connection reads its own file.
OwnFile == \A c \in Reader : reader[c].file \in {None, reader[c].want}

\* "Closes the reader, unregisters the cursor pieces and resets the piece priorities."
PrioritiesAreReset ==
    (\A c \in Reader : reader[c].at = "idle") => \A p \in Piece \ have : priority[p] = 4

\* remove_download: "we don't return without the removal having finished".
RemovalFinishes == gone => ~listed

\* A connection ends when its download is removed.
ConnectionsEndRemoved == \A c \in Reader : []<>(reader[c].at = "idle" \/ (~runs /\ ~gone))
=============================================================================
