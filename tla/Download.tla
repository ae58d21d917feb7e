------------------------------ MODULE Download ------------------------------
(***************************************************************************)
(* ChunkDownloader of virtualization/fetcher.py: a file is fetched in      *)
(* parallel ranges and verified, or as one stream if it is small or the    *)
(* server has no ranges.                                                   *)
(*                                                                         *)
(* The caller tries again after a failure.  No status code is looked at,   *)
(* so an error page counts as data; a server may also answer a range with  *)
(* the whole file.  Closing the client, when download() ends, ends the     *)
(* requests still under way (external: httpx).                             *)
(***************************************************************************)
EXTENDS Naturals, FiniteSets

CONSTANTS Total,         \* bytes of the file
          ChunkSize,
          MaxConcurrent, \* permits of the semaphore
          HashGiven,     \* the caller knows the SHA-256
          NoDest         \* the destination does not exist

ASSUME DownloadAssumption ==
  /\ Total \in Nat /\ ChunkSize \in Nat \ {0} /\ MaxConcurrent \in Nat \ {0}
  /\ NoDest \notin [0 .. Total -> {"hole", "none", "good", "bad"}]

VARIABLES
  dest,   \* what each byte of the destination is; Total stands for all that follow
  phase,  \* of download(): idle, head, stream, chunks, closing, returned, raised
  task,   \* of each chunk: queued, getting, done, failed
  honest  \* every answer of this download was the bytes asked for

downloadVars == <<dest, phase, task, honest>>

Lesser(a, b) == IF a < b THEN a ELSE b

\* A mutation: a chunk's end is taken as the offset after it.
RangesShort == {<<o, Lesser(o + ChunkSize - 2, Total - 1)>> :
                o \in {n \in 0 .. Total - 1 : n % ChunkSize = 0}}

\* The chunks: from every multiple of the size below the total, first and last byte.
Ranges == {<<o, Lesser(o + ChunkSize - 1, Total - 1)>> :
           o \in {n \in 0 .. Total - 1 : n % ChunkSize = 0}}

Offsets == 0 .. Total
Holes == [i \in Offsets |-> IF i < Total THEN "hole" ELSE "none"]
Good(d) == d # NoDest /\ \A i \in Offsets : d[i] = IF i < Total THEN "good" ELSE "none"

DownloadInit ==
  /\ dest = NoDest
  /\ phase = "idle"
  /\ task = << >>
  /\ honest = TRUE

\* download: the size and whether there are ranges are asked for first.
BeginDownload ==
  /\ phase \in {"idle", "raised"}
  /\ phase' = "head"
  /\ honest' = TRUE
  /\ task' = << >>
  /\ UNCHANGED dest

\* _chunked_download: the file is allocated and a task made for each chunk.
HeadChunked ==
  /\ phase = "head"
  /\ Total >= 2 * ChunkSize
  /\ phase' = "chunks"
  /\ dest' = Holes
  /\ task' = [r \in Ranges |-> "queued"]
  /\ UNCHANGED honest

\* _simple_download: the file is emptied, and what the server sends is written as it comes.
HeadSimple ==
  /\ phase = "head"
  /\ phase' = "stream"
  /\ dest' = [i \in Offsets |-> "none"]
  /\ UNCHANGED <<task, honest>>

\* The HEAD request fails.
HeadFails ==
  /\ phase = "head"
  /\ phase' = "raised"
  /\ UNCHANGED <<dest, task, honest>>

\* The stream ends, with the file or with something else, or breaks off; it is not verified.
StreamEnds ==
  /\ phase = "stream"
  /\ \/ dest' = [i \in Offsets |-> IF i < Total THEN "good" ELSE "none"] /\ phase' = "returned"
                /\ UNCHANGED honest
     \/ dest' = [i \in Offsets |-> "bad"] /\ phase' = "returned" /\ honest' = FALSE
     \/ dest' = [i \in Offsets |-> IF i = 0 THEN "good" ELSE "none"] /\ phase' = "raised"
                /\ UNCHANGED honest
  /\ UNCHANGED task

\* fetch_chunk, with a permit, asks for its range.
GetChunk(r) ==
  /\ phase \in {"chunks", "closing"}
  /\ r \in DOMAIN task /\ task[r] = "queued"
  /\ Cardinality({q \in DOMAIN task : task[q] = "getting"}) < MaxConcurrent
  /\ task' = [task EXCEPT ![r] = "getting"]
  /\ UNCHANGED <<dest, phase, honest>>

\* The answer is written at the chunk's offset: the bytes asked for, an error page, or the
\* whole file, which runs on past the chunk.
ChunkArrives(r, answer) ==
  /\ r \in DOMAIN task /\ task[r] = "getting"
  /\ dest' = [i \in Offsets |->
                CASE answer = "bytes" /\ i \in r[1] .. r[2] -> "good"
                  [] answer = "error" /\ i = r[1] -> "bad"
                  [] answer = "whole" /\ i >= r[1] -> IF r[1] = 0 /\ i < Total THEN "good"
                                                      ELSE IF r[1] = 0 THEN dest[i] ELSE "bad"
                  [] OTHER -> dest[i]]
  /\ honest' = (honest /\ answer = "bytes")
  /\ task' = [task EXCEPT ![r] = "done"]
  /\ UNCHANGED phase

\* A request fails: gather raises at once, and the other tasks go on until the client is closed.
ChunkFails(r) ==
  /\ r \in DOMAIN task /\ task[r] = "getting"
  /\ task' = [task EXCEPT ![r] = "failed"]
  /\ phase' = "closing"
  /\ UNCHANGED <<dest, honest>>

\* The client is closed.  gather has left the other tasks running; httpx is taken to fail
\* the requests of a closed client, so that none of them writes any more.
ClientCloses ==
  /\ phase = "closing"
  /\ phase' = "raised"
  /\ task' = << >>
  /\ UNCHANGED <<dest, honest>>

Verify == ~HashGiven \/ Good(dest)

\* gather returns when every task is done; the file is verified and removed if it is wrong.
GatherEnds ==
  /\ phase = "chunks"
  /\ \A r \in DOMAIN task : task[r] = "done"
  /\ phase' = IF Verify THEN "returned" ELSE "raised"
  /\ dest' = IF Verify THEN dest ELSE NoDest
  /\ UNCHANGED <<task, honest>>

\* The caller has its file, and asks for it anew.
Redownload ==
  /\ phase = "returned"
  /\ phase' = "idle"
  /\ task' = << >>
  /\ UNCHANGED <<dest, honest>>

DownloadNext ==
  \/ BeginDownload \/ HeadChunked \/ HeadSimple \/ HeadFails \/ StreamEnds
  \/ ClientCloses \/ GatherEnds \/ Redownload
  \/ \E r \in Ranges : \/ GetChunk(r) \/ ChunkFails(r)
                       \/ \E answer \in {"bytes", "error", "whole"} : ChunkArrives(r, answer)

DownloadSpec == DownloadInit /\ [][DownloadNext]_downloadVars

-----------------------------------------------------------------------------

\* A file that was fetched in chunks and is returned under a known hash is the file, after
\* any failures, retries and answers that were not what was asked for.
VerifiedIsGood == phase = "returned" /\ task # << >> /\ HashGiven => Good(dest)

\* If every answer is what was asked for, the chunks make up the whole file: a download
\* fails verification only because of an answer.
ChunksCover == phase = "chunks" /\ honest /\ (\A r \in DOMAIN task : task[r] = "done") => Good(dest)

\* A chunked download of a known hash that returns has fetched the whole file, and its ranges leave nothing out.
DownloadsGood == VerifiedIsGood /\ ChunksCover
=============================================================================
