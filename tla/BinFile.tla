------------------------------ MODULE BinFile ------------------------------
(***************************************************************************)
(* load_bin_file and save_bin_file (binary.cpp) on one file, with a        *)
(* process that may crash while it saves and readers that load at any      *)
(* time.  A stream holds bytes back and hands them to the file in its own  *)
(* time; an error stops it, and neither function looks.                    *)
(***************************************************************************)
EXTENDS Sequences, SequencesExt, Integers

CONSTANTS
  Contents,  \* byte arrays that are saved
  Missing    \* there is no file

Bytes == 0..255

ASSUME ContentsAssumption == Contents \subseteq Seq(Bytes) /\ Missing \notin Seq(Bytes)

VARIABLES
  file,    \* what the file holds, or Missing
  saving,  \* the latest save: what it was given, how much of it is in the stream
           \* and in the file, whether it opened the file and its stream is good
  ended,   \* history: how the latest save ended
  loaded   \* what the latest load returned

fileVars == <<file, saving, ended, loaded>>

Idle == [pc |-> "idle", data |-> <<>>, put |-> 0, flushed |-> 0,
         opened |-> FALSE, good |-> TRUE]

FileInit ==
  /\ file \in Contents \cup {Missing}
  /\ saving = Idle /\ ended = "none" /\ loaded = <<>>

-----------------------------------------------------------------------------
\* std::ofstream output(path): creates the file or empties it.
KeepsFile == IF file = Missing THEN <<>> ELSE file
Truncated == <<>>

Open(d) ==
  /\ saving.pc = "idle"
  /\ ended' = "none"
  /\ \/ /\ saving' = [Idle EXCEPT !.pc = "open", !.data = d, !.opened = TRUE]
        /\ file' = Truncated
     \/ /\ saving' = [Idle EXCEPT !.pc = "open", !.data = d, !.good = FALSE]
        /\ UNCHANGED file
  /\ UNCHANGED loaded

\* output << byte.
Put ==
  /\ saving.pc = "open" /\ saving.put < Len(saving.data)
  /\ saving' = [saving EXCEPT !.put = @ + 1]
  /\ UNCHANGED <<file, ended, loaded>>

Upto(k) == SubSeq(saving.data, saving.flushed + 1, k)

\* The stream hands some of its bytes to the file, or fails.
Flush ==
  /\ saving.pc = "open" /\ saving.good
  /\ \/ \E k \in (saving.flushed + 1)..saving.put :
          /\ file' = file \o Upto(k)
          /\ saving' = [saving EXCEPT !.flushed = k]
     \/ saving' = [saving EXCEPT !.good = FALSE] /\ UNCHANGED file
  /\ UNCHANGED <<ended, loaded>>

\* The end of save_bin_file closes the stream, which writes the rest.
Unflushed == <<>>
Rest == Upto(saving.put)

Close ==
  /\ saving.pc = "open" /\ saving.put = Len(saving.data)
  /\ file' = IF saving.good THEN file \o Rest ELSE file
  /\ ended' = IF saving.good THEN "ok" ELSE "error"
  /\ saving' = [saving EXCEPT !.pc = "idle"]
  /\ UNCHANGED loaded

\* What the stream held is lost with the process.
Crash ==
  /\ saving.pc = "open"
  /\ ended' = "crash"
  /\ saving' = [saving EXCEPT !.pc = "idle"]
  /\ UNCHANGED <<file, loaded>>

\* load_bin_file: a missing file gives no bytes.
LoadFile ==
  /\ loaded' = IF file = Missing THEN <<>> ELSE file
  /\ UNCHANGED <<file, saving, ended>>

FileNext == (\E d \in Contents : Open(d)) \/ Put \/ Flush \/ Close \/ Crash \/ LoadFile

FileSpec == FileInit /\ [][FileNext]_fileVars

-----------------------------------------------------------------------------
\* The file never mixes two saves: once a save has opened it, it holds the bytes
\* that save has written, whatever was there before, through errors and a crash
\* (binary.cpp:13-18).
FileIsOneSaves ==
  saving.opened => file # Missing /\ IsPrefix(file, saving.data)

\* When a save ended without an error or a crash, and none was begun since, a
\* load returns what was saved.
SavedIsLoaded ==
  [][LoadFile /\ saving.pc = "idle" /\ ended = "ok" => loaded' = saving.data]_fileVars
=============================================================================
