----------------------------- MODULE RecordFile -----------------------------
(***************************************************************************)
(* The record file of a stream: utils.File, filled by extractFlv with the  *)
(* tags FlvRecord hands on and closed by Queue.Close from the goroutine    *)
(* that polls the cloud.  ReadTag of the test client is its reader; a      *)
(* client's connection carries the same frames.                            *)
(*                                                                         *)
(* A file is a sequence of cells: a payload of the stream, the unfilled    *)
(* rest of a tag's buffer, or the size behind a tag.  The first cell of a  *)
(* tag also carries what its three size bytes say.                         *)
(***************************************************************************)
EXTENDS FlvRecord, SequencesExt

VARIABLES
    handle,   \* Queue.flvFile: "none" (not recording), "open" or "closed"
    file,     \* what is in the file, behind its 13 bytes of FLV header
    writing   \* where extractFlv is in WriteTagDirect

fileVars == <<handle, file, writing>>

-----------------------------------------------------------------------------
(* The format. *)

Cell(part, says) == [part |-> part, says |-> says]

Script == <<0, 1>>    \* the onMetaData tag of HEADER_BYTES
Rest == <<0, 2>>      \* buffer that was never written
TagLength == <<0, 3>> \* a previous tag size

\* CreateFile writes HEADER_BYTES.
Header == <<Cell(Script, 1), Cell(TagLength, 0)>>

\* The bytes of a tag: the buffer has its size, whatever was written into it.
Bytes(e) ==
    [i \in 1 .. e.size |-> IF i <= Len(e.parts) THEN e.parts[i] ELSE Rest]

\* The last fragment alone of the tag the node joined in: it is handed on as a
\* tag, but what its size bytes say has nothing to do with its length.
LoneFragment(e) == Len(e.parts) = 1 /\ e.parts[1][2] # 1

\* A tag whose first cell says size.
Cells(e, says) == [i \in 1 .. e.size |-> Cell(Bytes(e)[i], says)]

\* ReadTag at cell p: as much as the header says, and the size behind it.
ReadTag(f, p) ==
    LET n == f[p].says
    IN  [data |-> [i \in 1 .. n |-> f[p + i - 1].part], after |-> p + n + 1]

\* The loop of httpFlv: tags are read until the input ends inside one.
TagsIn(f) ==
    LET Complete(p) == p <= Len(f) /\ p + f[p].says <= Len(f)
        from[p \in 1 .. Len(f) + 1] ==
            IF Complete(p)
            THEN <<ReadTag(f, p).data>> \o from[ReadTag(f, p).after]
            ELSE <<>>
    IN  from[1]

-----------------------------------------------------------------------------
(* Actions. *)

\* extractFlv without its last part.
ExtractFlv ==
    /\ writing = "no"
    /\ Next
    /\ writing' = IF emitted' # emitted /\ handle # "none" THEN "tag" ELSE "no"
    /\ UNCHANGED <<handle, file>>

\* WriteTagDirect, first write.  CheckError panics if the file is closed.
WriteTag ==
    /\ writing = "tag"
    /\ LET e == Last(emitted)
       IN  \E says \in IF LoneFragment(e) THEN 0 .. MaxDeclared ELSE {e.size} :
              IF handle = "open"
              THEN file' = file \o Cells(e, says) /\ writing' = "size"
              ELSE UNCHANGED file /\ writing' = "panicked"
    /\ UNCHANGED <<vars, handle>>

\* Mutant of WriteSize: a second Write of the tag in place of its size.
WriteSizeTwice ==
    /\ writing = "size"
    /\ IF handle = "open"
       THEN /\ file' = file \o Cells(Last(emitted), 0)
            /\ writing' = "no"
       ELSE UNCHANGED file /\ writing' = "panicked"
    /\ UNCHANGED <<vars, handle>>

\* WriteTagDirect, second write: the size of the tag.
WriteSize ==
    /\ writing = "size"
    /\ IF handle = "open"
       THEN file' = Append(file, Cell(TagLength, 0)) /\ writing' = "no"
       ELSE UNCHANGED file /\ writing' = "panicked"
    /\ UNCHANGED <<vars, handle>>

\* Queue.Close, at any moment of the stream's goroutine.
CloseFile ==
    /\ handle = "open"
    /\ handle' = "closed"
    /\ UNCHANGED <<vars, file, writing>>

FileInit ==
    /\ Init
    /\ handle \in {"none", "open"}
    /\ file = Header
    /\ writing = "no"

FileNext ==
    /\ writing # "panicked"
    /\ ExtractFlv \/ WriteTag \/ WriteSize \/ CloseFile

FileSpec == FileInit /\ [][FileNext]_<<vars, fileVars>>

-----------------------------------------------------------------------------
(* Properties. *)

\* The tags as a reader should get them.
Expected == <<<<Script>>>> \o [i \in DOMAIN emitted |-> Bytes(emitted[i])]

\* Whenever recording stops, at a close in the middle of a tag, a panic or the
\* end of the process, a reader of the file gets the tags that were handed on,
\* in order and unchanged, and misses at most the one that was being written.
\* Only a lone fragment at the join can make it lose its place.
FileReadsBack ==
    (\A i \in DOMAIN emitted : ~LoneFragment(emitted[i])) =>
        /\ IsPrefix(TagsIn(file), Expected)
        /\ handle # "none" => Len(TagsIn(file)) >= Len(Expected) - 1

=============================================================================
