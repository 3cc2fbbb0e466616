---------------------------- MODULE FileTransfer ----------------------------
(***************************************************************************)
(* The transfer of one file at a time between a viewer and the server      *)
(* (miniWinVNC/vncclient.cpp): the rfbFileTransfer messages in             *)
(* vncClientThread::run, ReceiveFileChunk, FinishFileReception,            *)
(* SendFileChunk and FinishFileSending, with the checksums that spare      *)
(* blocks the receiver has already ("delta transfer").                     *)
(*                                                                         *)
(* As in the code, a download goes to the server and an upload comes from  *)
(* it.  Three threads act: the client thread takes messages, the window    *)
(* thread sends one block for each FileTransferSendPacketMessage in its    *)
(* queue, and the owner may forbid file transfer in the properties.  Each  *)
(* handler holds the update lock from its first read to its last send, so  *)
(* it is one action.  The viewer is not in this repository; here it        *)
(* transfers one file at a time and keeps to the order of messages that    *)
(* the handlers expect.                                                    *)
(*                                                                         *)
(* Files are sequences of blocks of sz_rfbBlockSize bytes (a shorter last  *)
(* block is a block of its own).  m_fFileDownloadError and                 *)
(* m_fFileUploadError are left out: they are set only just before the      *)
(* transfer is finished, and tell FinishFileSending which message ends it. *)
(***************************************************************************)
EXTENDS Integers, Sequences

CONSTANTS Blocks,      \* the contents a block can have
          MaxBlocks,   \* the length of the longest file to begin with
          MaxQueue,    \* messages a connection holds before a sender waits
          MaxPosted,   \* bound: posted messages when the viewer asks again
          NoFile,      \* there is no such file
          Hole,        \* a block nobody has written
          Here,        \* in place of a block the receiver has already
          Nothing      \* a packet without a byte

ASSUME FileAssumption ==
    /\ MaxBlocks \in Nat /\ MaxQueue \in Nat \ {0} /\ MaxPosted \in Nat \ {0}
    /\ {Hole, Here, Nothing} \cap Blocks = {}
    /\ Hole # Here /\ Here # Nothing /\ Hole # Nothing
    /\ NoFile \notin Seq(Blocks \union {Hole})

VARIABLES
    toServer, toViewer,  \* the connection
    connected,           \* the client is on the list (IsClient)
    enabled,             \* FileTransferEnabled
    disk,                \* the file on the server
    downloading,         \* m_fFileDownloadRunning
    destOpen, destPos,   \* m_hDestFile is open, and its file pointer
    uploading,           \* m_fFileUploadRunning
    srcOpen, srcPos,     \* m_hSrcFile is open, and its file pointer
    eof,                 \* m_fEof
    csBuffer, csOffset,  \* m_lpCSBuffer and m_nCSOffset (counted in blocks)
    buffers,             \* m_pBuff and m_pCompBuff, which both directions use
    posted,              \* FileTransferSendPacketMessages in the window's queue
    view,                \* the viewer: what it does, its file pointer, checksums
    vfile,               \* the file at the viewer
    refused,             \* history: a message of a running download was refused
    readFailed           \* history: a read of the file being uploaded failed

wire     == <<toServer, toViewer>>
download == <<downloading, destOpen, destPos>>
upload   == <<uploading, srcOpen, srcPos, eof, csBuffer, csOffset>>
viewer   == <<view, vfile>>
history  == <<refused, readFailed>>
vars == <<wire, connected, enabled, disk, download, upload, buffers, posted,
          viewer, history>>

Contents == Seq(Blocks \union {Hole})
Packets  == Blocks \union {Hole, Here, Nothing}

(* adler32 of a block; two blocks with the same sum are not considered.    *)
Sum(block) == [adler32 |-> block]
Sums       == {Sum(block) : block \in Blocks \union {Hole, Nothing}}

ToServer == [type : {"offer", "request", "eof", "abort"}]
              \union [type : {"packet"}, block : Packets]
              \union [type : {"checksums"}, sums : Seq(Sums)]
              \union [type : {"header"}, ok : BOOLEAN]
ToViewer == [type : {"eof", "abort", "confirm"}]
              \union [type : {"packet"}, block : Packets]
              \union [type : {"checksums"}, sums : Seq(Sums)]
              \union [type : {"accept", "header"}, ok : BOOLEAN]

TypeOK ==
    /\ toServer \in Seq(ToServer) /\ toViewer \in Seq(ToViewer)
    /\ connected \in BOOLEAN /\ enabled \in BOOLEAN
    /\ disk \in Contents \union {NoFile} /\ vfile \in Contents \union {NoFile}
    /\ downloading \in BOOLEAN /\ destOpen \in BOOLEAN /\ destPos \in Nat
    /\ uploading \in BOOLEAN /\ srcOpen \in BOOLEAN /\ srcPos \in Nat
    /\ eof \in BOOLEAN /\ posted \in Nat
    /\ csBuffer \in Seq(Sums) /\ csOffset \in Nat
    /\ buffers \in {"none", "live", "freed"}
    /\ view \in [does : {"idle", "offer", "send", "request", "receive", "gone"},
                 pos : Nat, sums : Seq(Sums)]
    /\ refused \in BOOLEAN /\ readFailed \in BOOLEAN

-----------------------------------------------------------------------------
(* Files: what WriteFile and SetEndOfFile do at a file pointer.            *)

At(file, k) == IF k \in DOMAIN file THEN file[k] ELSE Hole

Written(file, pos, block) ==
    LET size == IF Len(file) > pos THEN Len(file) ELSE pos + 1
    IN  [k \in 1 .. size |-> IF k = pos + 1 THEN block ELSE At(file, k)]

Truncated(file, pos) == [k \in 1 .. pos |-> At(file, k)]

(* GenerateFileChecksums: one for each block. *)
Checksums(file) == [i \in 1 .. Len(file) |-> Sum(file[i])]

(* A packet put into a file that is open at pos: its new contents.         *)
Received(file, pos, block) ==
    IF block \in {Here, Nothing} THEN file ELSE Written(file, pos, block)

Advanced(pos, block) == IF block = Nothing THEN pos ELSE pos + 1

(* What a sender puts on the wire for a block, given the receiver's sums.  *)
Packet(block, sums, i) ==
    [type |-> "packet",
     block |-> IF i \in DOMAIN sums /\ sums[i] = Sum(block) THEN Here ELSE block]

-----------------------------------------------------------------------------
(* The client thread takes a message.                                      *)

Room == Len(toViewer) < MaxQueue

Takes(type) ==
    /\ connected /\ toServer # <<>> /\ Head(toServer).type = type

Taken == toServer' = Tail(toServer)

(* What follows in the stream is not read and will be taken for messages:  *)
(* run ends the session at the first it does not know.                     *)
LoseSync ==
    /\ connected' = FALSE
    /\ toServer' = <<>> /\ toViewer' = <<>>
    /\ view' = [view EXCEPT !.does = "gone"]
    /\ UNCHANGED <<enabled, disk, download, upload, buffers, posted, vfile>>

(* rfbFileTransferConfirmHeader and -Reply: how much has been written.     *)
Confirm == [type |-> "confirm"]

(* rfbFileTransferOffer: the file is opened or made, the checksums of an   *)
(* old one are sent, then whether the file is accepted.                    *)
\* Slip: GetLastError() is not compared with ERROR_ALREADY_EXISTS.
OldSums_EvenIfNew(fits) ==
    IF ~fits THEN <<>>
    ELSE <<[type |-> "checksums",
            sums |-> IF disk = NoFile THEN NoFile ELSE Checksums(disk)]>>

OldSums(fits) ==
    IF disk = NoFile \/ ~fits THEN <<>>
    ELSE <<[type |-> "checksums", sums |-> Checksums(disk)]>>

\* Slip: the viewer is told only the good news.
Accept_OnlyIfFits(fits) ==
    toViewer' = toViewer \o <<Confirm>> \o OldSums(fits)
                  \o IF fits THEN <<[type |-> "accept", ok |-> fits]>> ELSE <<>>

Accept(fits) ==
    toViewer' = toViewer \o <<Confirm>> \o OldSums(fits)
                  \o <<[type |-> "accept", ok |-> fits]>>

Offer ==
    /\ Takes("offer") /\ Room /\ enabled
    /\ Taken
    /\ \/ /\ disk' = IF disk = NoFile THEN <<>> ELSE disk
          /\ Accept(TRUE)
          /\ downloading' = TRUE /\ destOpen' = TRUE /\ destPos' = 0
          /\ buffers' = "live"
       \/ /\ disk' \in {disk, IF disk = NoFile THEN <<>> ELSE disk}
          /\ Accept(FALSE)
          /\ destOpen' = FALSE /\ buffers' = "freed"
          /\ UNCHANGED <<downloading, destPos>>
    /\ UNCHANGED <<connected, enabled, upload, posted, viewer, history>>

OfferRefused ==
    /\ Takes("offer") /\ ~enabled
    /\ LoseSync
    /\ UNCHANGED history

(* FinishFileReception of a running download; `file` is what it has now.   *)
\* Slip: m_fFileDownloadRunning is not reset.
FinishFileReception_KeepsRunning(file) ==
    /\ disk' = Truncated(file, destPos)
    /\ destOpen' = FALSE
    /\ buffers' = "freed"
    /\ UNCHANGED <<downloading, destPos>>

\* Slip: no SetEndOfFile.
FinishFileReception_KeepsTail(file) ==
    /\ downloading' = FALSE
    /\ disk' = file
    /\ destOpen' = FALSE
    /\ buffers' = "freed"
    /\ UNCHANGED destPos

FinishFileReception(file) ==
    /\ downloading' = FALSE
    /\ disk' = Truncated(file, destPos)
    /\ destOpen' = FALSE
    /\ buffers' = "freed"
    /\ UNCHANGED destPos

(* ReceiveFileChunk with a download running: the block is written, or the  *)
(* file pointer moved past what is there, and confirmed; either may fail.  *)
ReceiveFileChunk ==
    /\ Takes("packet") /\ Room /\ enabled /\ downloading
    /\ Taken
    /\ LET block == Head(toServer).block IN
       \/ /\ disk' = Received(disk, destPos, block)
          /\ destPos' = Advanced(destPos, block)
          /\ toViewer' = Append(toViewer, Confirm)
          /\ UNCHANGED <<downloading, destOpen, buffers>>
       \/ /\ FinishFileReception(disk)
          /\ UNCHANGED toViewer
    /\ UNCHANGED <<connected, enabled, upload, posted, viewer, history>>

(* A packet nobody wants: one that carries bytes leaves them in the stream. *)
DropFileChunk ==
    /\ Takes("packet") /\ ~(enabled /\ downloading)
    /\ IF Head(toServer).block \in {Here, Nothing}
         THEN /\ Taken
              /\ UNCHANGED <<toViewer, connected, enabled, disk, download,
                             upload, buffers, posted, viewer>>
         ELSE LoseSync
    /\ refused' = (refused \/ downloading)
    /\ UNCHANGED readFailed

EndOfFile ==
    /\ Takes("eof")
    /\ Taken
    /\ IF enabled /\ downloading
         THEN FinishFileReception(disk)
         ELSE UNCHANGED <<disk, download, buffers>>
    /\ refused' = (refused \/ (downloading /\ ~enabled))
    /\ UNCHANGED <<toViewer, connected, enabled, upload, posted, viewer, readFailed>>

(* rfbFileTransferRequest: the old checksums are forgotten, the file is    *)
(* opened, and a header tells whether it could be.                         *)
Request ==
    /\ Takes("request") /\ Room /\ enabled
    /\ Taken
    /\ \E opens \in BOOLEAN :
         /\ opens => disk # NoFile
         /\ toViewer' = Append(toViewer, [type |-> "header", ok |-> opens])
         /\ srcOpen' = opens /\ srcPos' = 0
    /\ csBuffer' = <<>> /\ csOffset' = 0
    /\ readFailed' = FALSE
    /\ UNCHANGED <<connected, enabled, disk, download, uploading, eof, buffers,
                   posted, viewer, refused>>

(* A directory that cannot be packed: nothing is answered.                 *)
RequestUnzipped ==
    /\ Takes("request") /\ enabled
    /\ Taken
    /\ UNCHANGED <<toViewer, connected, enabled, disk, download, upload,
                   buffers, posted, viewer, history>>

RequestRefused ==
    /\ Takes("request") /\ ~enabled
    /\ LoseSync
    /\ UNCHANGED history

ReceiveDestinationFileChecksums ==
    /\ Takes("checksums")
    /\ Taken
    /\ csBuffer' = Head(toServer).sums
    /\ UNCHANGED <<toViewer, connected, enabled, disk, download, uploading,
                   srcOpen, srcPos, eof, csOffset, buffers, posted, viewer, history>>

(* The part of SendFileChunk that reads a block, sends it and posts the    *)
(* next message; m_fEof is false.  A read that fails returns no bytes, for *)
(* which the code sends a packet of length 0.                              *)
\* Slip: nothing is posted at the end of the file.
PostNext_OnlyAfterBlock(queued) == posted' = IF eof' THEN queued ELSE queued + 1

PostNext(queued) == posted' = queued + 1

\* Slip: the offset moves only when the block is spared.
NextSum_IfSpared(block) ==
    IF csOffset < Len(csBuffer) /\ csBuffer[csOffset + 1] = Sum(block)
    THEN csOffset + 1 ELSE csOffset

NextSum(block) == IF csOffset < Len(csBuffer) THEN csOffset + 1 ELSE csOffset

ReadBlock(block) ==
    LET i == csOffset + 1 IN
    /\ toViewer' = Append(toViewer, Packet(block, csBuffer, i))
    /\ csOffset' = NextSum(block)
    /\ eof' = FALSE

ReadAndSend(queued) ==
    /\ Room
    /\ \/ /\ srcOpen /\ srcPos >= Len(disk)
          /\ eof' = TRUE
          /\ UNCHANGED <<toViewer, srcPos, csOffset, readFailed>>
       \/ /\ srcOpen /\ srcPos < Len(disk)
          /\ ReadBlock(disk[srcPos + 1])
          /\ srcPos' = srcPos + 1
          /\ UNCHANGED readFailed
       \/ /\ ReadBlock(Nothing)
          /\ readFailed' = TRUE
          /\ UNCHANGED srcPos
    /\ PostNext(queued)

(* rfbFileHeader: the viewer is ready, or could not make its file.         *)
Header ==
    /\ Takes("header") /\ Head(toServer).ok
    /\ Taken
    /\ buffers' = "live" /\ uploading' = TRUE
    /\ ReadAndSend(posted)
    /\ UNCHANGED <<connected, enabled, disk, download, srcOpen, csBuffer,
                   viewer, refused>>

HeaderFails ==
    /\ Takes("header") /\ ~Head(toServer).ok
    /\ Taken
    /\ srcOpen' = FALSE
    /\ UNCHANGED <<toViewer, connected, enabled, disk, download, uploading,
                   srcPos, eof, csBuffer, csOffset, buffers, posted, viewer, history>>

(* FinishFileSending of a running upload, after the end or an abort.       *)
\* Slip: the file stays open after an abort.
FinishFileSending_KeepsHandle(type) ==
    /\ uploading' = FALSE
    /\ toViewer' = Append(toViewer, [type |-> type])
    /\ srcOpen' = (type = "abort")
    /\ buffers' = "freed"
    /\ UNCHANGED <<srcPos, eof, csBuffer, csOffset>>

FinishFileSending(type) ==
    /\ uploading' = FALSE
    /\ toViewer' = Append(toViewer, [type |-> type])
    /\ srcOpen' = FALSE
    /\ buffers' = "freed"
    /\ UNCHANGED <<srcPos, eof, csBuffer, csOffset>>

(* rfbAbortFileTransfer: a running download is finished, or else a running *)
(* upload; with neither it is an old viewer's question for permission.     *)
AbortFileTransfer ==
    /\ Takes("abort") /\ Room
    /\ Taken
    /\ \/ /\ downloading
          /\ FinishFileReception(disk)
          /\ UNCHANGED <<toViewer, upload>>
       \/ /\ ~downloading /\ uploading
          /\ FinishFileSending("abort")
          /\ UNCHANGED <<disk, download>>
       \/ /\ ~downloading /\ ~uploading
          /\ toViewer' = Append(toViewer, [type |-> "abort"])
          /\ UNCHANGED <<disk, download, upload, buffers>>
    /\ UNCHANGED <<connected, enabled, posted, viewer, history>>

-----------------------------------------------------------------------------
(* The window thread takes a FileTransferSendPacketMessage: SendFileChunk  *)
(* if its client is still there.                                           *)
SendFileChunk ==
    /\ posted > 0
    /\ \/ /\ connected /\ uploading /\ ~eof
          /\ ReadAndSend(posted - 1)
          /\ UNCHANGED <<uploading, srcOpen, csBuffer, buffers>>
       \/ /\ connected /\ uploading /\ eof
          /\ Room
          /\ FinishFileSending("eof")
          /\ posted' = posted - 1
          /\ UNCHANGED readFailed
       \/ /\ ~(connected /\ uploading)
          /\ posted' = posted - 1
          /\ UNCHANGED <<toViewer, upload, buffers, readFailed>>
    /\ UNCHANGED <<toServer, connected, enabled, disk, download, viewer, refused>>

(* EnableFileTransfer from the properties.                                 *)
EnableFileTransfer ==
    /\ enabled' = ~enabled
    /\ UNCHANGED <<wire, connected, disk, download, upload, buffers, posted,
                   viewer, history>>

-----------------------------------------------------------------------------
(* The viewer, outside this repository.                                    *)

ViewerChanges == UNCHANGED <<connected, enabled, disk, download, upload,
                             buffers, posted, history>>

Sends(messages) ==
    /\ Len(toServer) < MaxQueue
    /\ toServer' = toServer \o messages

Does(what) == view' = [does |-> what, pos |-> 0, sums |-> <<>>]

ViewerOffers ==
    /\ view.does = "idle" /\ vfile # NoFile
    /\ Sends(<<[type |-> "offer"]>>) /\ Does("offer")
    /\ UNCHANGED <<toViewer, vfile>> /\ ViewerChanges

ViewerRequests ==
    /\ view.does = "idle" /\ posted <= MaxPosted
    /\ Sends(<<[type |-> "request"]>>) /\ Does("request")
    /\ UNCHANGED <<toViewer, vfile>> /\ ViewerChanges

ViewerSendsBlock ==
    /\ view.does = "send" /\ view.pos < Len(vfile)
    /\ LET i == view.pos + 1 IN
         /\ Sends(<<Packet(vfile[i], view.sums, i)>>)
         /\ view' = [view EXCEPT !.pos = i]
    /\ UNCHANGED <<toViewer, vfile>> /\ ViewerChanges

ViewerEnds ==
    /\ view.does = "send" /\ view.pos = Len(vfile)
    /\ Sends(<<[type |-> "eof"]>>) /\ Does("idle")
    /\ UNCHANGED <<toViewer, vfile>> /\ ViewerChanges

ViewerAborts ==
    /\ view.does \in {"send", "receive"}
    /\ Sends(<<[type |-> "abort"]>>) /\ Does("idle")
    /\ UNCHANGED <<toViewer, vfile>> /\ ViewerChanges

(* It waits for the answer to its offer or request, takes the packets of   *)
(* the file it receives, and ignores what comes late.                      *)
ViewerTakes ==
    /\ connected /\ toViewer # <<>>
    /\ toViewer' = Tail(toViewer)
    /\ LET m == Head(toViewer) IN
       \/ /\ view.does = "offer" /\ m.type = "checksums"
          /\ view' = [view EXCEPT !.sums = m.sums]
          /\ UNCHANGED <<toServer, vfile>>
       \/ /\ view.does = "offer" /\ m.type = "accept"
          /\ view' = [view EXCEPT !.does = IF m.ok THEN "send" ELSE "idle"]
          /\ UNCHANGED <<toServer, vfile>>
       \/ /\ view.does = "request" /\ m.type = "header" /\ m.ok
          /\ Sends(IF vfile = NoFile THEN <<[type |-> "header", ok |-> TRUE]>>
                   ELSE <<[type |-> "checksums", sums |-> Checksums(vfile)],
                          [type |-> "header", ok |-> TRUE]>>)
          /\ vfile' = IF vfile = NoFile THEN <<>> ELSE vfile
          /\ Does("receive")
       \/ /\ view.does = "request" /\ m.type = "header" /\ m.ok
          /\ Sends(<<[type |-> "header", ok |-> FALSE]>>)
          /\ Does("idle") /\ UNCHANGED vfile
       \/ /\ view.does = "request" /\ m.type = "header" /\ ~m.ok
          /\ Does("idle") /\ UNCHANGED <<toServer, vfile>>
       \/ /\ view.does = "receive" /\ m.type = "packet"
          /\ vfile' = Received(vfile, view.pos, m.block)
          /\ view' = [view EXCEPT !.pos = Advanced(view.pos, m.block)]
          /\ UNCHANGED toServer
       \/ /\ view.does = "receive" /\ m.type = "eof"
          /\ vfile' = Truncated(vfile, view.pos)
          /\ Does("idle") /\ UNCHANGED toServer
       \/ /\ view.does = "receive" /\ m.type = "abort"
          /\ Does("idle") /\ UNCHANGED <<toServer, vfile>>
       \/ /\ ~ \/ view.does = "offer" /\ m.type \in {"checksums", "accept"}
               \/ view.does = "request" /\ m.type = "header"
               \/ view.does = "receive" /\ m.type \in {"packet", "eof", "abort"}
          /\ UNCHANGED <<toServer, viewer>>
    /\ ViewerChanges

(* The connection breaks.                                                  *)
ViewerLeaves ==
    /\ connected
    /\ LoseSync
    /\ UNCHANGED history

-----------------------------------------------------------------------------
Files == (UNION {[1 .. n -> Blocks] : n \in 0 .. MaxBlocks}) \union {NoFile}

Init ==
    /\ toServer = <<>> /\ toViewer = <<>>
    /\ connected = TRUE /\ enabled = TRUE
    /\ disk \in Files /\ vfile \in Files
    /\ downloading = FALSE /\ destOpen = FALSE /\ destPos = 0
    /\ uploading = FALSE /\ srcOpen = FALSE /\ srcPos = 0 /\ eof = FALSE
    /\ csBuffer = <<>> /\ csOffset = 0
    /\ buffers = "none" /\ posted = 0
    /\ view = [does |-> "idle", pos |-> 0, sums |-> <<>>]
    /\ refused = FALSE /\ readFailed = FALSE

ClientThread ==
    \/ Offer \/ OfferRefused \/ ReceiveFileChunk \/ DropFileChunk \/ EndOfFile
    \/ Request \/ RequestUnzipped \/ RequestRefused
    \/ ReceiveDestinationFileChecksums \/ Header \/ HeaderFails
    \/ AbortFileTransfer

Viewer ==
    \/ ViewerOffers \/ ViewerRequests \/ ViewerSendsBlock \/ ViewerEnds
    \/ ViewerAborts \/ ViewerTakes \/ ViewerLeaves

Next == ClientThread \/ SendFileChunk \/ EnableFileTransfer \/ Viewer

Spec == Init /\ [][Next]_vars

(* The threads get the update lock in turn; the viewer reads, and sends the *)
(* file it offered.                                                        *)
FairSpec == /\ Spec
            /\ SF_vars(ClientThread) /\ SF_vars(SendFileChunk)
            /\ WF_vars(ViewerTakes) /\ WF_vars(ViewerSendsBlock \/ ViewerEnds)

-----------------------------------------------------------------------------
(* Properties.                                                             *)

(* A running upload always has a message in the window's queue, also after *)
(* an abort and a new request have left stale ones there: the chain of     *)
(* SendFileChunk, PostToWinVNC, SendFileChunk never breaks.                *)
ChainAlive == connected /\ uploading => posted > 0

(* The two directions share m_pBuff and m_pCompBuff, and each transfer has *)
(* its handle: while no message of a running download has been refused, at *)
(* most one transfer runs, its buffers are allocated and its file is open. *)
LiveBuffers ==
    ~refused => /\ ~(downloading /\ uploading)
                /\ downloading => buffers = "live" /\ destOpen
                /\ uploading => buffers = "live" /\ srcOpen

(* While the viewer is connected and idle and nothing is on its way to the *)
(* client thread or the window thread, no transfer runs, no file is open   *)
(* and no buffer is allocated, after transfers that ended, failed or were  *)
(* aborted; unless a message of a running download has been refused.       *)
NothingLeftOpen ==
    connected /\ ~refused /\ view.does = "idle" /\ toServer = <<>> /\ posted = 0
        => /\ ~downloading /\ ~uploading
           /\ ~destOpen /\ ~srcOpen /\ buffers # "live"

(* A download that the viewer has ended leaves the server with the         *)
(* viewer's file, whatever the server had before: FinishFileReception cuts *)
(* off what is left of the old one.                                        *)
DownloadDelivers ==
    [][EndOfFile /\ downloading /\ enabled /\ ~refused => disk' = vfile]_vars

(* An upload that ends with rfbEndOfFile has given the viewer the server's *)
(* file, also when it had an old one and blocks of it were spared.         *)
UploadDelivers ==
    [][view.does = "receive" /\ view'.does = "idle" /\ toViewer' # toViewer
         /\ Head(toViewer).type = "eof" /\ ~refused /\ ~readFailed
         => vfile' = disk]_vars

(* Transfers end: what runs is finished, unless the connection breaks, the *)
(* owner refuses a message of it, or reads fail for ever.                  *)
TransfersEnd ==
    downloading \/ uploading
        ~> (~downloading /\ ~uploading) \/ refused \/ readFailed \/ ~connected

(* An offer is answered, whether the file could be opened or not.          *)
OfferAnswered == view.does = "offer" ~> view.does # "offer"
=============================================================================
