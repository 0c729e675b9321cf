--------------------------- MODULE ResourceProofs ---------------------------
(***************************************************************************)
(* Three small parts that share no state: the files of BinFile, the group  *)
(* counts of Dispatch and the devices of DeviceLifetime.                   *)
(***************************************************************************)
EXTENDS BinFile, Dispatch, DeviceLifetime, TLAPS

-----------------------------------------------------------------------------
(* BinFile, for byte arrays of any length and any order of saves, errors,     *)
(* crashes and loads.                                                         *)

Saving == [pc : {"idle", "open"}, data : Seq(Bytes), put : Nat, flushed : Nat,
           opened : BOOLEAN, good : BOOLEAN]

FileTyped ==
  /\ file \in Seq(Bytes) \cup {Missing}
  /\ saving \in Saving
  /\ ended \in {"none", "ok", "error", "crash"}

\* The stream is ahead of the file, and the data of both.
StreamAhead == saving.flushed <= saving.put /\ saving.put <= Len(saving.data)

\* The file holds what the save has flushed.
Flushed == saving.pc = "open" /\ saving.opened => file = SubSeq(saving.data, 1, saving.flushed)

\* A good stream has a file.
GoodIsOpened == saving.pc = "open" /\ saving.good => saving.opened

\* A save that is over has left some of its data, or all of it.
Left ==
  saving.pc = "idle" =>
    /\ saving.opened => \E n \in 0..Len(saving.data) : file = SubSeq(saving.data, 1, n)
    /\ ended = "ok" => file = saving.data

FileInv == FileTyped /\ StreamAhead /\ Flushed /\ GoodIsOpened /\ Left

\* The part of a sequence up to k is the part up to j and the rest.
LEMMA SubSeqSplit ==
  ASSUME NEW s \in Seq(Bytes), NEW j \in 0..Len(s), NEW k \in j..Len(s)
  PROVE  SubSeq(s, 1, j) \o SubSeq(s, j + 1, k) = SubSeq(s, 1, k)
<1>1. SubSeq(s, 1, j) \in Seq(Bytes) /\ Len(SubSeq(s, 1, j)) = j
  OBVIOUS
<1>2. SubSeq(s, j + 1, k) \in Seq(Bytes) /\ Len(SubSeq(s, j + 1, k)) = k - j
  OBVIOUS
<1>3. SubSeq(s, 1, k) \in Seq(Bytes) /\ Len(SubSeq(s, 1, k)) = k
  OBVIOUS
<1> DEFINE both == SubSeq(s, 1, j) \o SubSeq(s, j + 1, k)
<1>4. both \in Seq(Bytes) /\ Len(both) = k
  BY <1>1, <1>2
<1>5. ASSUME NEW i \in 1..k PROVE both[i] = SubSeq(s, 1, k)[i]
  <2>1. CASE i <= j
    BY <1>1, <1>2, <2>1
  <2>2. CASE j < i
    BY <1>1, <1>2, <2>2
  <2> QED
    BY <2>1, <2>2
<1> QED
  BY <1>3, <1>4, <1>5

LEMMA SubSeqNone ==
  ASSUME NEW s \in Seq(Bytes)
  PROVE  SubSeq(s, 1, 0) = <<>>
OBVIOUS

LEMMA SubSeqAll ==
  ASSUME NEW s \in Seq(Bytes)
  PROVE  SubSeq(s, 1, Len(s)) = s
OBVIOUS

LEMMA SubSeqBytes ==
  ASSUME NEW s \in Seq(Bytes), NEW n \in 0..Len(s)
  PROVE  SubSeq(s, 1, n) \in Seq(Bytes)
OBVIOUS

LEMMA FileInvInit == FileInit => FileInv
BY ContentsAssumption DEF FileInit, Idle, FileInv, FileTyped, Saving, StreamAhead, Flushed, GoodIsOpened, Left

LEMMA OpenKeepsFileInv ==
  ASSUME FileInv, NEW d \in Contents, Open(d)
  PROVE  FileInv'
<1>1. d \in Seq(Bytes) /\ Len(d) \in Nat
  BY ContentsAssumption
<1>2. CASE /\ saving' = [Idle EXCEPT !.pc = "open", !.data = d, !.opened = TRUE]
           /\ file' = Truncated
  <2>1. saving' = [pc |-> "open", data |-> d, put |-> 0, flushed |-> 0, opened |-> TRUE, good |-> TRUE]
    BY <1>2 DEF Idle
  <2>2. saving' \in Saving
    BY <1>1, <2>1 DEF Saving
  <2>3. file' = <<>> /\ ended' = "none" /\ file' \in Seq(Bytes)
    BY <1>2 DEF Truncated, Open
  <2>4. file' = SubSeq(saving'.data, 1, saving'.flushed)
    BY <1>1, <2>1, <2>3, SubSeqNone
  <2> QED
    BY <1>1, <2>1, <2>2, <2>3, <2>4
       DEF FileInv, FileTyped, StreamAhead, Flushed, GoodIsOpened, Left
<1>3. CASE /\ saving' = [Idle EXCEPT !.pc = "open", !.data = d, !.good = FALSE]
           /\ UNCHANGED file
  <2>1. saving' = [pc |-> "open", data |-> d, put |-> 0, flushed |-> 0, opened |-> FALSE, good |-> FALSE]
    BY <1>3 DEF Idle
  <2>2. saving' \in Saving
    BY <1>1, <2>1 DEF Saving
  <2>3. file' \in Seq(Bytes) \cup {Missing} /\ ended' = "none"
    BY <1>3 DEF Open, FileInv, FileTyped
  <2> QED
    BY <1>1, <2>1, <2>2, <2>3
       DEF FileInv, FileTyped, StreamAhead, Flushed, GoodIsOpened, Left
<1> QED
  BY <1>2, <1>3 DEF Open

LEMMA PutKeepsFileInv ==
  ASSUME FileInv, Put
  PROVE  FileInv'
BY DEF Put, FileInv, FileTyped, Saving, StreamAhead, Flushed, GoodIsOpened, Left

\* What a flush up to k, or the end of the save, makes of the file.
LEMMA FileUpto ==
  ASSUME FileInv, saving.pc = "open", saving.good, NEW k \in saving.flushed..saving.put
  PROVE  /\ file \o Upto(k) = SubSeq(saving.data, 1, k)
         /\ k \in 0..Len(saving.data)
<1>1. /\ saving.data \in Seq(Bytes) /\ saving.flushed \in 0..Len(saving.data)
      /\ k \in saving.flushed..Len(saving.data)
  BY DEF FileInv, FileTyped, Saving, StreamAhead
<1>2. file = SubSeq(saving.data, 1, saving.flushed)
  BY DEF FileInv, Flushed, GoodIsOpened
<1>3. file \o Upto(k)
        = SubSeq(saving.data, 1, saving.flushed) \o SubSeq(saving.data, saving.flushed + 1, k)
  BY <1>2 DEF Upto
<1>4. k \in 0..Len(saving.data)
  BY <1>1
<1> QED
  BY <1>1, <1>3, <1>4, SubSeqSplit

LEMMA FlushKeepsFileInv ==
  ASSUME FileInv, Flush
  PROVE  FileInv'
<1>1. ASSUME NEW k \in (saving.flushed + 1)..saving.put,
             file' = file \o Upto(k), saving' = [saving EXCEPT !.flushed = k]
      PROVE  FileInv'
  <2>1. k \in saving.flushed..saving.put /\ saving \in Saving
    BY DEF FileInv, FileTyped, Saving
  <2>2. file' = SubSeq(saving.data, 1, k) /\ k \in 0..Len(saving.data)
    BY <1>1, <2>1, FileUpto DEF Flush
  <2>3. file' \in Seq(Bytes)
    BY <2>1, <2>2, SubSeqBytes DEF Saving
  <2>4. /\ saving' \in Saving /\ saving'.flushed = k
        /\ saving'.pc = "open" /\ saving'.data = saving.data /\ saving'.put = saving.put
        /\ saving'.opened = saving.opened /\ saving'.good = saving.good
    <3>1. k \in Nat
      BY <2>1 DEF Saving
    <3> QED
      BY <1>1, <2>1, <3>1 DEF Flush, Saving
  <2>5. FileTyped' /\ StreamAhead'
    <3>1. k <= saving.put /\ saving.put <= Len(saving.data)
      BY <2>1 DEF FileInv, StreamAhead, Saving
    <3>2. ended' \in {"none", "ok", "error", "crash"}
      BY DEF Flush, FileInv, FileTyped
    <3> QED
      BY <2>3, <2>4, <3>1, <3>2 DEF FileTyped, StreamAhead
  <2>6. Flushed'
    BY <2>2, <2>4 DEF Flushed
  <2>7. GoodIsOpened' /\ Left'
    BY <2>4 DEF FileInv, GoodIsOpened, Left, Flush
  <2> QED
    BY <2>5, <2>6, <2>7 DEF FileInv
<1>2. CASE saving' = [saving EXCEPT !.good = FALSE] /\ UNCHANGED file
  BY <1>2 DEF Flush, FileInv, FileTyped, Saving, StreamAhead, Flushed, GoodIsOpened, Left
<1> QED
  BY <1>1, <1>2 DEF Flush

LEMMA CloseKeepsFileInv ==
  ASSUME FileInv, Close
  PROVE  FileInv'
<1>1. /\ saving \in Saving /\ saving' = [saving EXCEPT !.pc = "idle"]
      /\ saving.put = Len(saving.data) /\ saving.flushed \in 0..Len(saving.data)
  BY DEF Close, FileInv, FileTyped, Saving, StreamAhead
<1>2. saving'.data = saving.data /\ saving'.opened = saving.opened /\ saving'.pc = "idle"
  BY <1>1 DEF Saving
<1>3. CASE saving.good
  <2>1. saving.put \in saving.flushed..saving.put
    BY <1>1 DEF Saving
  <2>2. file' = SubSeq(saving.data, 1, saving.put)
    BY <1>3, <2>1, FileUpto DEF Close, Rest
  <2>3. file' = saving.data /\ saving.data \in Seq(Bytes)
    BY <1>1, <2>2, SubSeqAll DEF Saving
  <2>4. Left'
    BY <1>1, <1>2, <2>2, <2>3 DEF Left, Saving
  <2> QED
    BY <1>1, <1>2, <1>3, <2>3, <2>4
       DEF Close, FileInv, FileTyped, Saving, StreamAhead, Flushed, GoodIsOpened
<1>4. CASE ~saving.good
  <2>1. file' = file /\ ended' = "error"
    BY <1>4 DEF Close
  <2>2. Left'
    BY <1>1, <1>2, <2>1 DEF Close, Left, FileInv, Flushed
  <2> QED
    BY <1>1, <1>2, <2>1, <2>2
       DEF FileInv, FileTyped, Saving, StreamAhead, Flushed, GoodIsOpened
<1> QED
  BY <1>3, <1>4

LEMMA CrashKeepsFileInv ==
  ASSUME FileInv, Crash
  PROVE  FileInv'
<1>1. /\ saving \in Saving /\ saving' = [saving EXCEPT !.pc = "idle"]
      /\ saving.flushed \in 0..Len(saving.data)
  BY DEF Crash, FileInv, FileTyped, Saving, StreamAhead
<1>2. saving'.data = saving.data /\ saving'.opened = saving.opened /\ saving'.pc = "idle"
  BY <1>1 DEF Saving
<1>3. Left'
  BY <1>1, <1>2 DEF Crash, Left, FileInv, Flushed
<1> QED
  BY <1>1, <1>2, <1>3
     DEF Crash, FileInv, FileTyped, Saving, StreamAhead, Flushed, GoodIsOpened

LEMMA FileInvNext == FileInv /\ [FileNext]_fileVars => FileInv'
<1> SUFFICES ASSUME FileInv, [FileNext]_fileVars PROVE FileInv'
  OBVIOUS
<1>1. CASE LoadFile \/ UNCHANGED fileVars
  BY <1>1 DEF LoadFile, fileVars, FileInv, FileTyped, StreamAhead, Flushed, GoodIsOpened, Left
<1> QED
  BY <1>1, OpenKeepsFileInv, PutKeepsFileInv, FlushKeepsFileInv, CloseKeepsFileInv, CrashKeepsFileInv DEF FileNext

\* How a file comes about, and that nothing else ever does.
THEOREM FileInvariant == FileSpec => []FileInv
BY FileInvInit, FileInvNext, PTL DEF FileSpec

LEMMA OneFromInv == FileInv => FileIsOneSaves
<1> SUFFICES ASSUME FileInv, saving.opened PROVE file # Missing /\ IsPrefix(file, saving.data)
  BY DEF FileIsOneSaves
<1>1. saving.data \in Seq(Bytes) /\ saving.flushed \in 0..Len(saving.data)
  BY DEF FileInv, FileTyped, Saving, StreamAhead
<1>2. PICK n \in 0..Len(saving.data) : file = SubSeq(saving.data, 1, n)
  BY <1>1 DEF FileInv, FileTyped, Saving, Flushed, Left
<1>3. file \in Seq(Bytes) /\ Len(file) = n
  BY <1>1, <1>2
<1>4. SubSeq(file, 1, Len(file)) = file
  BY <1>3, SubSeqAll
<1> QED
  BY <1>1, <1>2, <1>3, <1>4, ContentsAssumption DEF IsPrefix

\* A file holds the beginning of what one save was given, whatever was there
\* before, through errors and a crash (binary.cpp:13-18).
THEOREM OneSaves == FileSpec => []FileIsOneSaves
BY FileInvariant, OneFromInv, PTL

\* What a save that ended well was given is what a load returns (binary.cpp:4-18).
THEOREM SavedThenLoaded == FileSpec => SavedIsLoaded
<1>1. FileInv /\ [FileNext]_fileVars =>
        [LoadFile /\ saving.pc = "idle" /\ ended = "ok" => loaded' = saving.data]_fileVars
  <2> SUFFICES ASSUME FileInv, LoadFile, saving.pc = "idle", ended = "ok"
               PROVE  loaded' = saving.data
    OBVIOUS
  <2>1. file = saving.data /\ saving.data \in Seq(Bytes)
    BY DEF FileInv, Left, FileTyped, Saving
  <2> QED
    BY <2>1, ContentsAssumption DEF LoadFile
<1> QED
  BY <1>1, FileInvariant, PTL DEF FileSpec, SavedIsLoaded

-----------------------------------------------------------------------------
(* Dispatch, for every word size, local size and element count.               *)

LEMMA Division ==
  ASSUME NEW m \in Nat, NEW l \in Nat \ {0}
  PROVE  /\ m \div l \in Nat
         /\ l * (m \div l) <= m
         /\ m < l * (m \div l) + l
BY Z3

LEMMA Remainder ==
  ASSUME NEW m \in Nat, NEW w \in Nat \ {0}
  PROVE  /\ m % w \in 0..(w - 1)
         /\ m % w <= m
         /\ m < w => m % w = m
BY Z3

LEMMA WrapsOnce ==
  ASSUME NEW m \in Nat, NEW w \in Nat \ {0}, NEW r \in 0..(w - 1), m = w + r
  PROVE  m % w = r
BY Z3

\* Groups of l elements that cover n, and no group too many.
LEMMA GroupsCover ==
  ASSUME NEW n \in Nat, NEW l \in Nat \ {0}, n + l - 1 < Word
  PROVE  /\ Groups(n, l) * l >= n
         /\ (Groups(n, l) - 1) * l < AtLeastOne(n)
<1> DEFINE m == n + l - 1
           q == m \div l
<1>0. m \in Nat /\ m < Word /\ Word \in Nat \ {0}
  BY DispatchAssumption
<1>1. m \in Nat /\ m % Word = m /\ Word \in Nat \ {0}
  <2> HIDE DEF m
  <2> QED BY <1>0, Remainder
<1>2. q \in Nat /\ l * q <= m /\ m < l * q + l
  BY <1>1, Division
<1>3. Groups(n, l) = AtLeastOne(q)
  BY <1>1 DEF Groups
<1> HIDE DEF q
<1>4. l * q = q * l /\ (q - 1) * l = q * l - l
  BY <1>2
<1>5. CASE q = 0
  <2>1. m < l
    BY <1>2, <1>5
  <2>2. n = 0
    BY <2>1
  <2> QED BY <1>3, <1>5, <2>2 DEF AtLeastOne
<1>6. CASE q # 0
  <2>1. q * l >= n
    BY <1>2, <1>4
  <2>2. (q - 1) * l < n
    BY <1>2, <1>4
  <2>3. n # 0
    BY <2>2, <1>2, <1>6, <1>4
  <2> QED BY <1>3, <1>6, <2>1, <2>2, <2>3 DEF AtLeastOne
<1> QED BY <1>5, <1>6

LEMMA GroupsBounded ==
  ASSUME NEW n \in Nat, NEW l \in Nat \ {0}, l < Word
  PROVE  Groups(n, l) \in 1..(Word - 1)
<1> DEFINE m == (n + l - 1) % Word
           q == m \div l
<1>1. Word \in Nat \ {0} /\ n + l - 1 \in Nat
  BY DispatchAssumption
<1>2. m \in 0..(Word - 1)
  BY <1>1, Remainder
<1> HIDE DEF m
<1>3. q \in Nat /\ l * q <= m
  BY <1>2, Division
<1> HIDE DEF q
<1>4. q <= l * q
  BY <1>3
<1>5. q <= Word - 1
  BY <1>1, <1>2, <1>3, <1>4
<1>6. Word - 1 >= 1
  BY <1>1
<1>7. Groups(n, l) = AtLeastOne(q)
  BY DEF Groups, q, m
<1> QED BY <1>3, <1>5, <1>6, <1>7 DEF AtLeastOne

\* A sum that wraps starts anew below l, and one with the value of a
\* specialization constant never reaches a second group.
LEMMA OneGroup ==
  ASSUME NEW n \in 0..(Word - 1), NEW l \in 1..(Word - 1),
         n + l - 1 >= Word \/ l = Unspecialized
  PROVE  Groups(n, l) = 1
<1> DEFINE m == (n + l - 1) % Word
           q == m \div l
<1>1. Word \in Nat \ {0} /\ l \in Nat \ {0} /\ n \in Nat /\ n + l - 1 \in Nat
  BY DispatchAssumption
<1>2. m \in 0..(Word - 1)
  BY <1>1, Remainder
<1>3. Groups(n, l) = AtLeastOne(q)
  BY DEF Groups
<1>4. n + l - 1 >= Word => m < l
  <2> SUFFICES ASSUME n + l - 1 >= Word PROVE m < l
    OBVIOUS
  <2>1. n + l - 1 = Word + (n + l - 1 - Word) /\ n + l - 1 - Word \in 0..(Word - 1)
    BY <1>1
  <2>2. m = n + l - 1 - Word
    BY <1>1, <2>1, WrapsOnce
  <2> QED BY <2>2, <1>1
<1>5. m \in Nat
  BY <1>1, <1>2
<1>6. m <= l \/ m < l
  BY <1>1, <1>2, <1>4 DEF Unspecialized
<1> HIDE DEF m
<1>7. q \in Nat /\ l * q <= m
  BY <1>1, <1>5, Division
<1> HIDE DEF q
<1>8. q <= 1
  <2>1. SUFFICES ASSUME q >= 2 PROVE FALSE
    BY <1>7
  <2>2. l * q >= l * 2
    BY <2>1, <1>1, <1>7
  <2> QED BY <2>2, <1>1, <1>5, <1>6, <1>7
<1> QED BY <1>3, <1>7, <1>8 DEF AtLeastOne

\* A product with a larger or a smaller factor.
LEMMA Products ==
  ASSUME NEW g \in Nat, NEW l \in Nat, NEW a \in Nat, l <= a
  PROVE  g * l <= g * a
BY SMT

-----------------------------------------------------------------------------
\* What a work was computed from, and how much has been filled.
WorkIsOfShader ==
  /\ work # NoWork =>
       /\ work.local \in 1..(Word - 1) /\ work.actual \in LocalSizes
       /\ work.groups = Groups(work.elements, work.local)
  /\ filled <= size["stagingIn"]

DispatchInv == DispatchTypeOK /\ WorkIsOfShader

LEMMA DispatchTypes ==
  /\ \A c \in Counts : c \in 0..(Word - 1) /\ c \in Nat
  /\ \A l \in LocalSizes : l \in 1..(Word - 1) /\ l \in Nat \ {0}
  /\ Word \in Nat \ {0}
BY DispatchAssumption

LEMMA NoWorkIsWork ==
  NoWork \in [elements : Counts \cup {0}, groups : 0..(Word - 1),
              local : 0..(Word - 1), actual : LocalSizes \cup {0}]
BY DispatchTypes DEF NoWork

LEMMA DispatchInvInit == DispatchInit => DispatchInv
<1> SUFFICES ASSUME DispatchInit PROVE DispatchInv
  OBVIOUS
<1>1. \A b \in Names : size[b] \in Nat
  BY DispatchTypes DEF DispatchInit
<1>2. DispatchTypeOK
  <2>1. work \in [elements : Counts \cup {0}, groups : 0..(Word - 1),
                  local : 0..(Word - 1), actual : LocalSizes \cup {0}]
    BY NoWorkIsWork DEF DispatchInit
  <2>2. shader \in [spv : LocalSizes \cup {0}, localX : 0..(Word - 1)]
    BY DispatchTypes DEF DispatchInit, NoShader
  <2>3. filled \in 0..(Word - 1)
    BY DispatchTypes DEF DispatchInit
  <2>4. size \in [Names -> Counts] /\ built \in LocalSizes \cup {0}
    BY DEF DispatchInit
  <2> QED BY <2>1, <2>2, <2>3, <2>4 DEF DispatchTypeOK
<1>3. WorkIsOfShader
  BY <1>1 DEF DispatchInit, WorkIsOfShader, Names
<1> QED BY <1>2, <1>3 DEF DispatchInv

LEMMA DispatchInvNext == DispatchInv /\ [DispatchNext]_dispatchVars => DispatchInv'
<1> SUFFICES ASSUME DispatchInv, [DispatchNext]_dispatchVars PROVE DispatchInv'
  OBVIOUS
<1> USE DEF DispatchInv
<1>0. DispatchTypeOK /\ WorkIsOfShader /\ Word \in Nat \ {0}
  BY DispatchTypes
<1>1. ASSUME NEW s \in LocalSizes, SetShader(s) PROVE DispatchInv'
  <2>1. s \in 1..(Word - 1) /\ Unspecialized \in 0..(Word - 1)
    BY DispatchTypes DEF Unspecialized
  <2>2. PICK x \in Loaded(s) : shader' = [spv |-> s, localX |-> x]
    BY <1>1 DEF SetShader
  <2>3. x \in 0..(Word - 1)
    BY <2>1, DispatchTypes DEF Loaded, Reflected
  <2>4. shader' \in [spv : LocalSizes \cup {0}, localX : 0..(Word - 1)]
    BY <2>2, <2>3
  <2>5. UNCHANGED <<size, built, filled, work>>
    BY <1>1 DEF SetShader
  <2>6. DispatchTypeOK'
    BY <1>0, <2>4, <2>5 DEF DispatchTypeOK
  <2>7. WorkIsOfShader'
    BY <1>0, <2>5 DEF WorkIsOfShader, Groups
  <2> QED BY <2>6, <2>7
<1>2. ASSUME BuildPipeline PROVE DispatchInv'
  <2>1. shader.spv \in LocalSizes \cup {0}
    BY <1>0 DEF DispatchTypeOK
  <2>2. DispatchTypeOK'
    BY <1>0, <1>2, <2>1, NoWorkIsWork DEF BuildPipeline, DispatchTypeOK
  <2>3. WorkIsOfShader'
    BY <1>0, <1>2 DEF BuildPipeline, WorkIsOfShader
  <2> QED BY <2>2, <2>3
<1>3. ASSUME NEW n \in Counts, Fill(n) PROVE DispatchInv'
  <2>1. n \in 0..(Word - 1)
    BY DispatchTypes
  <2>2. DispatchTypeOK'
    BY <1>0, <1>3, <2>1 DEF Fill, DispatchTypeOK
  <2>3. WorkIsOfShader'
    BY <1>0, <1>3 DEF Fill, WorkIsOfShader, Groups
  <2> QED BY <2>2, <2>3
<1>4. ASSUME NEW n \in Counts, Record(n) PROVE DispatchInv'
  <2>1. UNCHANGED <<size, shader, built, filled>> /\ built # 0
    BY <1>4 DEF Record
  <2>2. CASE work' = NoWork
    <3>1. DispatchTypeOK'
      BY <1>0, <2>1, <2>2, NoWorkIsWork DEF DispatchTypeOK
    <3>2. WorkIsOfShader'
      BY <1>0, <2>1, <2>2 DEF WorkIsOfShader
    <3> QED BY <3>1, <3>2
  <2>3. CASE work' # NoWork
    <3> DEFINE l == shader.localX
    <3>1. l # 0 /\ work' = [elements |-> n, groups |-> Groups(n, l), local |-> l, actual |-> built]
      BY <1>4, <2>3 DEF Record
    <3>2. l \in 1..(Word - 1) /\ l \in Nat \ {0} /\ l < Word /\ n \in Nat /\ built \in LocalSizes
      BY <1>0, <2>1, <3>1, DispatchTypes DEF DispatchTypeOK
    <3> HIDE DEF l
    <3>3. Groups(n, l) \in 1..(Word - 1)
      BY <3>2, GroupsBounded
    <3>4. DispatchTypeOK'
      BY <1>0, <2>1, <3>1, <3>2, <3>3 DEF DispatchTypeOK
    <3>5. WorkIsOfShader'
      BY <1>0, <2>1, <3>1, <3>2 DEF WorkIsOfShader, Groups
    <3> QED BY <3>4, <3>5
  <2> QED BY <2>2, <2>3
<1>5. CASE UNCHANGED dispatchVars
  <2>1. DispatchTypeOK'
    BY <1>0, <1>5 DEF dispatchVars, DispatchTypeOK
  <2>2. WorkIsOfShader'
    BY <1>0, <1>5 DEF dispatchVars, WorkIsOfShader, Groups
  <2> QED BY <2>1, <2>2
<1> QED BY <1>1, <1>2, <1>3, <1>4, <1>5 DEF DispatchNext

\* The inductive invariant of setting shaders, building, filling and recording.
THEOREM DispatchInvariant == DispatchSpec => []DispatchInv
<1>1. DispatchInit => DispatchInv
  BY DispatchInvInit
<1>2. DispatchInv /\ [DispatchNext]_dispatchVars => DispatchInv'
  BY DispatchInvNext
<1> QED BY <1>1, <1>2, PTL DEF DispatchSpec

LEMMA ExactFromInv == DispatchInv => GroupsAreExact
<1> SUFFICES ASSUME DispatchInv, work # NoWork, ~Wraps
             PROVE  /\ work.local <= work.actual => Invocations >= work.elements
                    /\ work.local >= work.actual =>
                         (work.groups - 1) * work.actual < AtLeastOne(work.elements)
  BY DEF GroupsAreExact
<1> DEFINE n == work.elements
           l == work.local
           a == work.actual
           g == work.groups
<1>1. l \in 1..(Word - 1) /\ a \in LocalSizes /\ g = Groups(n, l)
  BY DEF DispatchInv, WorkIsOfShader
<1>2. n \in Nat /\ l \in Nat \ {0} /\ a \in Nat \ {0} /\ Word \in Nat
  BY <1>1, DispatchTypes DEF DispatchInv, DispatchTypeOK
<1>3. n + l - 1 < Word
  BY <1>2 DEF Wraps
<1>4. Invocations = g * a
  BY DEF Invocations
<1> HIDE DEF n, l, a, g
<1>5. g * l >= n /\ (g - 1) * l < AtLeastOne(n)
  BY <1>1, <1>2, <1>3, GroupsCover
<1>6. g \in Nat /\ g >= 1
  <2>1. l < Word
    BY <1>1, <1>2
  <2>2. g \in 1..(Word - 1)
    BY <1>1, <1>2, <2>1, GroupsBounded
  <2> QED BY <2>2, <1>2
<1>7. l <= a => g * a >= n
  <2> SUFFICES ASSUME l <= a PROVE g * a >= n
    OBVIOUS
  <2>1. g * l <= g * a
    BY <1>2, <1>6, Products
  <2>2. g * l \in Nat /\ g * a \in Nat
    BY <1>2, <1>6
  <2> HIDE DEF l, a, g, n
  <2> QED BY <2>1, <2>2, <1>5, <1>2
<1>8. l >= a => (g - 1) * a < AtLeastOne(n)
  <2> SUFFICES ASSUME l >= a PROVE (g - 1) * a < AtLeastOne(n)
    OBVIOUS
  <2> DEFINE h == g - 1
  <2>1. h \in Nat
    BY <1>6
  <2> HIDE DEF h
  <2>2. h * a <= h * l
    BY <1>2, <2>1, Products
  <2>3. h * a \in Nat /\ h * l \in Nat /\ AtLeastOne(n) \in Nat
    BY <1>2, <2>1 DEF AtLeastOne
  <2>4. h * l < AtLeastOne(n)
    BY <1>5 DEF h
  <2>5. h * a < AtLeastOne(n)
    BY <2>2, <2>3, <2>4
  <2> QED BY <2>5 DEF h
<1> QED BY <1>4, <1>7, <1>8 DEF n, l, a, g

\* Every work has exactly the groups its elements need, unless the sum wraps: too
\* few only when the remembered local size is too large, too many only when it is
\* too small, for every width of the machine word.
THEOREM ExactGroups == DispatchSpec => []GroupsAreExact
BY DispatchInvariant, ExactFromInv, PTL

LEMMA WholeFromInv == DispatchInv => WholeBufferIsComputed
<1> SUFFICES ASSUME DispatchInv, work # NoWork, ~Wraps, work.local <= work.actual,
                    size["gpuIn"] <= size["stagingIn"], size["gpuIn"] <= size["gpuOut"],
                    size["gpuOut"] <= size["stagingOut"]
             PROVE  /\ Fits
                    /\ \A i \in 0..(filled - 1) :
                         i < work.elements /\ i < size["gpuIn"] => IsResult(i)
  BY DEF WholeBufferIsComputed
<1>1. /\ \A b \in Names : size[b] \in Nat
      /\ work.elements \in Nat /\ work.groups \in Nat /\ work.actual \in Nat /\ filled \in Nat
  BY DispatchTypes DEF DispatchInv, DispatchTypeOK
<1>2. /\ size["gpuIn"] \in Nat /\ size["gpuOut"] \in Nat
      /\ size["stagingIn"] \in Nat /\ size["stagingOut"] \in Nat
  BY <1>1 DEF Names
<1>3. Invocations >= work.elements /\ Invocations \in Nat
  BY <1>1, ExactFromInv DEF GroupsAreExact, Invocations
<1>4. Passing <= size["gpuIn"] /\ Passing \in Nat
  BY <1>2, <1>3 DEF Passing, Smaller
<1>5. Fits
  BY <1>2, <1>4 DEF Fits, CopiedIn, CopiedOut
<1>6. ASSUME NEW i \in 0..(filled - 1), i < work.elements, i < size["gpuIn"]
      PROVE  IsResult(i)
  <2>1. i < Passing
    BY <1>1, <1>2, <1>3, <1>6 DEF Passing, Smaller
  <2> QED BY <1>1, <1>2, <1>6, <2>1 DEF IsResult, CopiedIn, CopiedOut
<1> QED BY <1>5, <1>6

\* With buffers of which none is too small for what is copied or written into it,
\* none is overrun, and every element filled and asked for comes back.
THEOREM WholeBuffer == DispatchSpec => []WholeBufferIsComputed
BY DispatchInvariant, WholeFromInv, PTL

LEMMA OneGroupFromInv == DispatchInv => WrappingMakesOneGroup
<1> SUFFICES ASSUME DispatchInv, work # NoWork, Wraps \/ work.local = Unspecialized
             PROVE  work.groups = 1
  BY DEF WrappingMakesOneGroup
<1>1. work.local \in 1..(Word - 1) /\ work.groups = Groups(work.elements, work.local)
  BY DEF DispatchInv, WorkIsOfShader
<1>2. work.elements \in 0..(Word - 1)
  BY DispatchTypes DEF DispatchInv, DispatchTypeOK
<1> QED BY <1>1, <1>2, OneGroup DEF Wraps

\* A sum that wraps, and a local size left to a specialization constant, make
\* record dispatch a single group.
THEOREM WrappedDispatch == DispatchSpec => []WrappingMakesOneGroup
BY DispatchInvariant, OneGroupFromInv, PTL

-----------------------------------------------------------------------------
(* DeviceLifetime, for any pipelines, pointers and devices.                   *)

Holders == Pointers \cup Pipelines
Places == Devices \cup {None}

LifetimeTyped ==
  /\ gpu \in [Holders -> Places]
  /\ parts \in [Pipelines -> [Parts -> Places]]
  /\ mixed \in [Pipelines -> BOOLEAN]

\* Somebody keeps what the members of pipelines are of: now, and in a world
\* inside of a call, where it is what was kept before the call.
Kept ==
  \A p \in Pipelines, m \in Parts :
    parts[p][m] # None => \E h \in Holders : gpu[h] = parts[p][m]

Known(w) ==
  \A p \in Pipelines, m \in Parts :
    w.parts[p][m] # None => \E h \in Holders : gpu[h] = w.parts[p][m]

LifetimeInv == LifetimeTyped /\ ObjectsOfOneDevice /\ (~undefined => Kept)

\* h lets go of the last share of a device something is made on, in one of the
\* ways the property allows.
LetGoBy(h) ==
  /\ HoldsLast(h) /\ gpu'[h] # gpu[h]
  /\ \/ \E p \in Pipelines \ {h} : MadeOn(p, gpu[h])
     \/ /\ h \in Pipelines /\ MadeOn(h, gpu[h])
        /\ \/ \E v \in Pointers : SetGpu(h, v)
           \/ \E q \in Pipelines : gpu[q] # gpu[h] /\ MoveAssign(h, q)

-----------------------------------------------------------------------------
\* A call in one step, and in two.
LEMMA OneWorld ==
  ASSUME NEW w, Through(<<w>>)
  PROVE  /\ gpu' = w.gpu /\ parts' = w.parts
         /\ undefined' => Orphans(w) # {}
         /\ ~undefined' => Orphans(w) = {}
<1>1. Len(<<w>>) = 1 /\ DOMAIN <<w>> = 1..1 /\ <<w>>[1] = w
  OBVIOUS
<1>2. Last(<<w>>) = w
  BY <1>1 DEF Last
<1>3. (undefined' => Orphans(w) # {}) /\ (~undefined' => Orphans(w) = {})
  <2>1. undefined' = \E i \in 1..1 : Orphans(<<w>>[i]) # {}
    BY <1>1 DEF Through
  <2>2. 1 \in 1..1 /\ \A i \in 1..1 : <<w>>[i] = w
    BY <1>1
  <2> QED
    BY <2>1, <2>2
<1> QED
  BY <1>2, <1>3 DEF Through

LEMMA TwoWorlds ==
  ASSUME NEW w, NEW x, Through(<<w, x>>)
  PROVE  /\ gpu' = x.gpu /\ parts' = x.parts
         /\ undefined' => Orphans(w) # {} \/ Orphans(x) # {}
<1>1. /\ Len(<<w, x>>) = 2 /\ DOMAIN <<w, x>> = 1..2
      /\ <<w, x>>[1] = w /\ <<w, x>>[2] = x
  OBVIOUS
<1>2. Last(<<w, x>>) = x
  BY <1>1 DEF Last
<1>3. undefined' => Orphans(w) # {} \/ Orphans(x) # {}
  <2>1. undefined' = \E i \in 1..2 : Orphans(<<w, x>>[i]) # {}
    BY <1>1 DEF Through
  <2>2. \A i \in 1..2 : <<w, x>>[i] = w \/ <<w, x>>[i] = x
    BY <1>1
  <2> QED
    BY <2>1, <2>2
<1> QED
  BY <1>2, <1>3 DEF Through

LEMMA NoOrphans ==
  ASSUME NEW w,
         \A p \in Pipelines, m \in Parts :
           w.parts[p][m] # None => \E h \in Holders : w.gpu[h] = w.parts[p][m]
  PROVE  Orphans(w) = {}
BY DEF Orphans, Holders

\* When the last world of a call has no orphans, everything is kept.
LEMMA KeptAfter ==
  ASSUME NEW w, Orphans(w) = {}, gpu' = w.gpu, parts' = w.parts
  PROVE  Kept'
<1> SUFFICES ASSUME NEW p \in Pipelines, NEW m \in Parts, w.parts[p][m] # None
             PROVE  \E h \in Holders : w.gpu[h] = w.parts[p][m]
  BY DEF Kept
<1>1. <<p, m>> \in Pipelines \X Parts /\ <<p, m>>[1] = p /\ <<p, m>>[2] = m
  OBVIOUS
<1>2. <<p, m>> \notin Orphans(w)
  OBVIOUS
<1> QED
  BY <1>1, <1>2 DEF Orphans, Holders

\* As long as nobody lets go, nothing is orphaned.
LEMMA NobodyLetsGo ==
  ASSUME NEW w, Known(w), \A k \in Holders : \E j \in Holders : w.gpu[j] = gpu[k]
  PROVE  Orphans(w) = {}
<1>1. ASSUME NEW p \in Pipelines, NEW m \in Parts, w.parts[p][m] # None
      PROVE  \E h \in Holders : w.gpu[h] = w.parts[p][m]
  BY <1>1 DEF Known
<1> QED
  BY <1>1, NoOrphans

\* Something is orphaned by the one who lets go, because it had the last share.
LEMMA LetGo ==
  ASSUME NEW h \in Holders, NEW w, Known(w), Orphans(w) # {},
         \A k \in Holders \ {h} : \E j \in Holders : w.gpu[j] = gpu[k]
  PROVE  /\ HoldsLast(h) /\ w.gpu[h] # gpu[h]
         /\ \E p \in Pipelines, m \in Parts : w.parts[p][m] = gpu[h]
<1>1. PICK o \in Orphans(w) : TRUE
  OBVIOUS
<1> DEFINE p == o[1]
           m == o[2]
           d == w.parts[p][m]
<1>2. p \in Pipelines /\ m \in Parts /\ d # None /\ \A k \in Holders : w.gpu[k] # d
  BY <1>1 DEF Orphans, Holders
<1> HIDE DEF p, m
<1>3. PICK g \in Holders : gpu[g] = d
  BY <1>2 DEF Known
<1> HIDE DEF d
<1>4. \A k \in Holders \ {h} : gpu[k] # d
  BY <1>2
<1>5. gpu[h] = d
  BY <1>3, <1>4
<1>6. w.parts[p][m] = gpu[h]
  BY <1>5 DEF d
<1> QED
  BY <1>2, <1>4, <1>5, <1>6 DEF HoldsLast, Holders

-----------------------------------------------------------------------------
\* What each call does to pipelines.  First the calls that replace one share.
LEMMA ShareReplaced ==
  ASSUME LifetimeTyped, Kept, NEW h \in Holders, NEW d,
         Through(<<[World EXCEPT !.gpu[h] = d]>>)
  PROVE  /\ gpu' = [gpu EXCEPT ![h] = d] /\ UNCHANGED parts
         /\ ~undefined' => Kept'
         /\ undefined' =>
              /\ HoldsLast(h) /\ gpu'[h] # gpu[h]
              /\ \E p \in Pipelines : MadeOn(p, gpu[h])
<1> DEFINE w == [World EXCEPT !.gpu[h] = d]
<1>1. w.gpu = [gpu EXCEPT ![h] = d] /\ w.parts = parts
  BY DEF World
<1>2. /\ gpu' = w.gpu /\ parts' = w.parts
      /\ undefined' => Orphans(w) # {}
      /\ ~undefined' => Orphans(w) = {}
  BY OneWorld
<1> HIDE DEF w
<1>3. Known(w)
  BY <1>1 DEF Kept, Known
<1>4. \A k \in Holders \ {h} : \E j \in Holders : w.gpu[j] = gpu[k]
  BY <1>1 DEF LifetimeTyped
<1>5. ASSUME undefined'
      PROVE  /\ HoldsLast(h) /\ w.gpu[h] # gpu[h]
             /\ \E p \in Pipelines : MadeOn(p, gpu[h])
  <2>1. /\ HoldsLast(h) /\ w.gpu[h] # gpu[h]
        /\ \E p \in Pipelines, m \in Parts : w.parts[p][m] = gpu[h]
    BY <1>2, <1>3, <1>4, <1>5, LetGo
  <2> QED
    BY <1>1, <2>1 DEF MadeOn
<1>6. ~undefined' => Kept'
  BY <1>2, KeptAfter
<1> QED
  BY <1>1, <1>2, <1>5, <1>6

LEMMA CreateStep ==
  ASSUME LifetimeTyped, Kept, NEW v \in Pointers, NEW d \in Devices, Create(v, d)
  PROVE  /\ gpu' = [gpu EXCEPT ![v] = d] /\ UNCHANGED <<parts, mixed>>
         /\ ~undefined' => Kept'
         /\ undefined' => LetGoBy(v)
<1>1. v \in Holders /\ v \notin Pipelines
  BY LifetimeAssumption DEF Holders
<1>2. Through(<<[World EXCEPT !.gpu[v] = d]>>) /\ mixed' = mixed
  BY DEF Create
<1>3. undefined' =>
        /\ HoldsLast(v) /\ gpu'[v] # gpu[v]
        /\ \E p \in Pipelines : MadeOn(p, gpu[v])
  BY <1>1, <1>2, ShareReplaced
<1> QED
  BY <1>1, <1>2, <1>3, ShareReplaced DEF LetGoBy

LEMMA AssignStep ==
  ASSUME LifetimeTyped, Kept, NEW v \in Pointers, NEW u \in Pointers, Assign(v, u)
  PROVE  /\ gpu' = [gpu EXCEPT ![v] = gpu[u]] /\ UNCHANGED <<parts, mixed>>
         /\ ~undefined' => Kept'
         /\ undefined' => LetGoBy(v)
<1>1. v \in Holders /\ v \notin Pipelines
  BY LifetimeAssumption DEF Holders
<1>2. Through(<<[World EXCEPT !.gpu[v] = gpu[u]]>>) /\ mixed' = mixed
  BY DEF Assign
<1>3. undefined' =>
        /\ HoldsLast(v) /\ gpu'[v] # gpu[v]
        /\ \E p \in Pipelines : MadeOn(p, gpu[v])
  BY <1>1, <1>2, ShareReplaced
<1> QED
  BY <1>1, <1>2, <1>3, ShareReplaced DEF LetGoBy

LEMMA SetGpuStep ==
  ASSUME LifetimeTyped, Kept, NEW p \in Pipelines, NEW v \in Pointers, SetGpu(p, v)
  PROVE  /\ gpu' = [gpu EXCEPT ![p] = gpu[v]] /\ UNCHANGED <<parts, mixed>>
         /\ ~undefined' => Kept'
         /\ undefined' => LetGoBy(p)
<1>1. p \in Holders
  BY DEF Holders
<1>2. Through(<<[World EXCEPT !.gpu[p] = gpu[v]]>>) /\ mixed' = mixed
  BY DEF SetGpu
<1>3. undefined' =>
        /\ HoldsLast(p) /\ gpu'[p] # gpu[p]
        /\ \E q \in Pipelines : MadeOn(q, gpu[p])
  BY <1>1, <1>2, ShareReplaced
<1> QED
  BY <1>1, <1>2, <1>3, ShareReplaced DEF LetGoBy

\* Members may be replaced by something of a device that is kept.
LEMMA SharesStay ==
  ASSUME LifetimeTyped, Kept, NEW w, w.gpu = gpu, NEW d, d = None \/ \E h \in Holders : gpu[h] = d,
         \A q \in Pipelines, m \in Parts : w.parts[q][m] \in {d, parts[q][m]}
  PROVE  Orphans(w) = {}
<1>1. Known(w)
  BY DEF Kept, Known
<1> QED
  BY <1>1, NobodyLetsGo

LEMMA SetLayoutStep ==
  ASSUME LifetimeTyped, Kept, NEW p \in Pipelines, NEW d \in Devices \cup {None}, SetLayout(p, d)
  PROVE  /\ UNCHANGED gpu /\ parts' \in [Pipelines -> [Parts -> Places]]
         /\ mixed' = [mixed EXCEPT ![p] = @ \/ Mixes(p, d)]
         /\ \A q \in Pipelines \ {p} : parts'[q] = parts[q]
         /\ \A m \in Parts : parts'[p][m] \in {d, parts[p][m]}
         /\ ~undefined' /\ Kept'
<1> DEFINE w == [World EXCEPT !.parts[p]["bgl"] = d]
           x == [World EXCEPT !.parts[p]["bgl"] = d, !.parts[p]["pipelineLayout"] = d]
<1>1. /\ w.gpu = gpu /\ w.parts = [parts EXCEPT ![p]["bgl"] = d]
      /\ x.gpu = gpu
      /\ x.parts = [parts EXCEPT ![p]["bgl"] = d, ![p]["pipelineLayout"] = d]
  BY DEF World
<1>2. /\ Through(<<w, x>>) /\ mixed' = [mixed EXCEPT ![p] = @ \/ Mixes(p, d)]
      /\ d = None \/ \E h \in Holders : gpu[h] = d
  BY DEF SetLayout, Holders
<1>3. gpu' = x.gpu /\ parts' = x.parts /\ (undefined' => Orphans(w) # {} \/ Orphans(x) # {})
  BY <1>2, TwoWorlds
<1> DEFINE a == [parts[p] EXCEPT !["bgl"] = d]
           b == [a EXCEPT !["pipelineLayout"] = d]
<1>a. w.parts = [parts EXCEPT ![p] = a] /\ x.parts = [parts EXCEPT ![p] = b]
  BY <1>1 DEF LifetimeTyped
<1>b. /\ a \in [Parts -> Places] /\ \A m \in Parts : a[m] \in {d, parts[p][m]}
      /\ b \in [Parts -> Places] /\ \A m \in Parts : b[m] \in {d, parts[p][m]}
  BY DEF LifetimeTyped, Places
<1> HIDE DEF a, b, w, x
<1>4. \A q \in Pipelines, m \in Parts :
        w.parts[q][m] \in {d, parts[q][m]} /\ x.parts[q][m] \in {d, parts[q][m]}
  BY <1>a, <1>b DEF LifetimeTyped
<1>5. Orphans(w) = {} /\ Orphans(x) = {}
  BY <1>1, <1>2, <1>4, SharesStay
<1>6. x.parts \in [Pipelines -> [Parts -> Places]] /\ \A q \in Pipelines \ {p} : x.parts[q] = parts[q]
  BY <1>a, <1>b DEF LifetimeTyped
<1>7. Kept'
  BY <1>3, <1>5, KeptAfter
<1> QED
  BY <1>1, <1>2, <1>3, <1>4, <1>5, <1>6, <1>7

LEMMA BuildStep ==
  ASSUME LifetimeTyped, Kept, NEW p \in Pipelines, Build(p)
  PROVE  /\ UNCHANGED gpu /\ parts' \in [Pipelines -> [Parts -> Places]]
         /\ mixed' \in [Pipelines -> BOOLEAN]
         /\ \A q \in Pipelines : q # p => parts'[q] = parts[q] /\ mixed'[q] = mixed[q]
         /\ \A m \in Parts : parts'[p][m] \in {gpu[p], parts[p][m]}
         /\ \/ \A m \in Parts : parts'[p][m] = gpu[p]
            \/ mixed'[p] = (mixed[p] \/ Mixes(p, gpu[p]))
         /\ ~undefined' /\ Kept'
<1>1. PICK done \in 0..Len(BuildOrder) :
        LET made == {BuildOrder[i] : i \in 1..done}
        IN  /\ Through(<<[World EXCEPT !.parts[p] =
                            [m \in Parts |-> IF m \in made THEN gpu[p] ELSE @[m]]]>>)
            /\ mixed' = [mixed EXCEPT ![p] = done < Len(BuildOrder) /\ (@ \/ Mixes(p, gpu[p]))]
  BY DEF Build
<1> DEFINE made == {BuildOrder[i] : i \in 1..done}
           a == [m \in Parts |-> IF m \in made THEN gpu[p] ELSE parts[p][m]]
           w == [World EXCEPT !.parts[p] = [m \in Parts |-> IF m \in made THEN gpu[p] ELSE @[m]]]
           b == done < Len(BuildOrder) /\ (mixed[p] \/ Mixes(p, gpu[p]))
<1>2. w.gpu = gpu /\ w.parts = [parts EXCEPT ![p] = a]
  BY DEF World
<1>3. Through(<<w>>) /\ mixed' = [mixed EXCEPT ![p] = b]
  BY <1>1
<1>4. gpu' = w.gpu /\ parts' = w.parts /\ (undefined' => Orphans(w) # {})
  BY <1>3, OneWorld
<1>5. a \in [Parts -> Places] /\ \A m \in Parts : a[m] \in {gpu[p], parts[p][m]}
  BY DEF LifetimeTyped, Holders
<1>6. b \in BOOLEAN /\ ((\A m \in Parts : a[m] = gpu[p]) \/ b = (mixed[p] \/ Mixes(p, gpu[p])))
  <2>1. CASE done < Len(BuildOrder)
    BY <2>1, Zenon
  <2>2. CASE ~(done < Len(BuildOrder))
    <3>1. done = 5
      BY <2>2 DEF BuildOrder
    <3>2. \A m \in Parts : m \in made
      BY <3>1 DEF Parts, BuildOrder
    <3>3. \A m \in Parts : a[m] = gpu[p]
      BY <3>2
    <3>4. b \in BOOLEAN
      BY Zenon
    <3> QED
      BY <3>3, <3>4
  <2> QED
    BY <2>1, <2>2
<1> HIDE DEF w, a, made, b
<1>7. w.parts \in [Pipelines -> [Parts -> Places]] /\ mixed' \in [Pipelines -> BOOLEAN]
  BY <1>2, <1>3, <1>5, <1>6 DEF LifetimeTyped
<1>8. /\ w.parts[p] = a /\ mixed'[p] = b
      /\ \A q \in Pipelines : q # p => w.parts[q] = parts[q] /\ mixed'[q] = mixed[q]
  BY <1>2, <1>3 DEF LifetimeTyped
<1>9. Orphans(w) = {}
  <2>1. \A q \in Pipelines, m \in Parts : w.parts[q][m] \in {gpu[p], parts[q][m]}
    BY <1>5, <1>8
  <2>2. \E h \in Holders : gpu[h] = gpu[p]
    BY DEF Holders
  <2> QED
    BY <1>2, <2>1, <2>2, SharesStay
<1>10. Kept'
  BY <1>4, <1>9, KeptAfter
<1>11. \/ \A m \in Parts : parts'[p][m] = gpu[p]
       \/ mixed'[p] = (mixed[p] \/ Mixes(p, gpu[p]))
  BY <1>4, <1>6, <1>8
<1>12. /\ UNCHANGED gpu /\ parts' \in [Pipelines -> [Parts -> Places]]
       /\ \A q \in Pipelines : q # p => parts'[q] = parts[q] /\ mixed'[q] = mixed[q]
       /\ \A m \in Parts : parts'[p][m] \in {gpu[p], parts[p][m]}
  BY <1>2, <1>4, <1>5, <1>7, <1>8
<1> QED
  BY <1>4, <1>7, <1>9, <1>10, <1>11, <1>12

\* The device pointer is the last to go.
LEMMA DestroyedWorld ==
  ASSUME LifetimeTyped, NEW p \in Pipelines, NEW k \in 1..6
  PROVE  LET w == DestroyedUpto(p, DestructionOrder, k)
         IN  /\ k < 6 => w.gpu = gpu
             /\ k = 6 => w.gpu = [gpu EXCEPT ![p] = None] /\ \A m \in Parts : w.parts[p][m] = None
             /\ w.parts \in [Pipelines -> [Parts -> Places]]
             /\ \A q \in Pipelines, m \in Parts : w.parts[q][m] \in {None, parts[q][m]}
             /\ \A q \in Pipelines : q # p => w.parts[q] = parts[q]
<1> DEFINE gone == {DestructionOrder[i] : i \in 1..k}
           a == [m \in Parts |-> IF m \in gone THEN None ELSE parts[p][m]]
           w == DestroyedUpto(p, DestructionOrder, k)
<1>1. w = [gpu |-> IF "gpu" \in gone THEN [gpu EXCEPT ![p] = None] ELSE gpu,
           parts |-> [parts EXCEPT ![p] = a]]
  BY DEF DestroyedUpto
<1>2. w.gpu = (IF "gpu" \in gone THEN [gpu EXCEPT ![p] = None] ELSE gpu)
      /\ w.parts = [parts EXCEPT ![p] = a]
  BY <1>1
<1>3. k < 6 => "gpu" \notin gone
  BY DEF DestructionOrder
<1>4. k = 6 => "gpu" \in gone /\ \A m \in Parts : m \in gone
  BY DEF DestructionOrder, Parts
<1>5. /\ a \in [Parts -> Places] /\ \A m \in Parts : a[m] \in {None, parts[p][m]}
      /\ k = 6 => \A m \in Parts : a[m] = None
  BY <1>4 DEF LifetimeTyped, Places
<1> HIDE DEF w, a, gone
<1>6. w.parts \in [Pipelines -> [Parts -> Places]] /\ w.parts[p] = a
      /\ \A q \in Pipelines : q # p => w.parts[q] = parts[q]
  BY <1>2, <1>5 DEF LifetimeTyped
<1>7. \A q \in Pipelines, m \in Parts : w.parts[q][m] \in {None, parts[q][m]}
  BY <1>5, <1>6
<1>8. /\ k < 6 => w.gpu = gpu
      /\ k = 6 => w.gpu = [gpu EXCEPT ![p] = None] /\ \A m \in Parts : w.parts[p][m] = None
  BY <1>2, <1>3, <1>4, <1>5, <1>6
<1> QED
  BY <1>6, <1>7, <1>8 DEF w

LEMMA DestructStep ==
  ASSUME LifetimeTyped, Kept, NEW p \in Pipelines, Destruct(p)
  PROVE  /\ gpu' = [gpu EXCEPT ![p] = None] /\ parts' \in [Pipelines -> [Parts -> Places]]
         /\ mixed' = [mixed EXCEPT ![p] = FALSE]
         /\ \A q \in Pipelines : q # p => parts'[q] = parts[q]
         /\ \A m \in Parts : parts'[p][m] = None
         /\ ~undefined' => Kept'
         /\ undefined' => LetGoBy(p)
<1> DEFINE W(k) == DestroyedUpto(p, DestructionOrder, k)
           ws == [k \in 1..6 |-> W(k)]
<1>1. Len(DestructionOrder) = 6
  BY DEF DestructionOrder
<1>2. Through(ws) /\ mixed' = [mixed EXCEPT ![p] = FALSE]
  BY <1>1 DEF Destruct
<1>3. Len(ws) = 6 /\ DOMAIN ws = 1..6 /\ \A k \in 1..6 : ws[k] = W(k)
  OBVIOUS
<1> HIDE DEF ws
<1>4. gpu' = W(6).gpu /\ parts' = W(6).parts /\ undefined' = \E k \in 1..6 : Orphans(W(k)) # {}
  <2>1. Last(ws) = W(6)
    BY <1>3 DEF Last
  <2> QED
    BY <1>2, <1>3, <2>1 DEF Through
<1>5. /\ W(6).gpu = [gpu EXCEPT ![p] = None]
      /\ W(6).parts \in [Pipelines -> [Parts -> Places]]
      /\ \A q \in Pipelines : q # p => W(6).parts[q] = parts[q]
      /\ \A m \in Parts : W(6).parts[p][m] = None
  <2>1. 6 \in 1..6
    OBVIOUS
  <2> QED
    BY <2>1, DestroyedWorld
<1>6. ASSUME NEW k \in 1..6, k < 6 PROVE Orphans(W(k)) = {}
  <2>1. /\ W(k).gpu = gpu
        /\ \A q \in Pipelines, m \in Parts : W(k).parts[q][m] \in {None, parts[q][m]}
    BY <1>6, DestroyedWorld
  <2> QED
    BY <2>1, SharesStay
<1>7. ASSUME undefined' PROVE LetGoBy(p)
  <2>1. Orphans(W(6)) # {}
    <3>1. PICK k \in 1..6 : Orphans(W(k)) # {}
      BY <1>4, <1>7
    <3>2. ~(k < 6)
      BY <1>6, <3>1
    <3>3. k = 6
      BY <3>2
    <3> QED
      BY <3>1, <3>3
  <2> HIDE DEF W
  <2>2. p \in Holders
    BY DEF Holders
  <2>3. Known(W(6))
    BY <1>5 DEF Kept, Known
  <2>4. \A k \in Holders \ {p} : \E j \in Holders : W(6).gpu[j] = gpu[k]
    BY <1>5 DEF LifetimeTyped
  <2>5. /\ HoldsLast(p) /\ W(6).gpu[p] # gpu[p]
        /\ \E q \in Pipelines, m \in Parts : W(6).parts[q][m] = gpu[p]
    BY <2>1, <2>2, <2>3, <2>4, LetGo
  <2>6. PICK q \in Pipelines, m \in Parts : W(6).parts[q][m] = gpu[p]
    BY <2>5
  <2>7. gpu[p] # None
    BY <2>5 DEF HoldsLast
  <2>8. q # p /\ parts[q][m] = gpu[p]
    BY <1>5, <2>6, <2>7
  <2> QED
    BY <1>4, <2>5, <2>8 DEF LetGoBy, MadeOn
<1>8. ~undefined' => Kept'
  <2>1. 6 \in 1..6
    OBVIOUS
  <2>2. ~undefined' => Orphans(W(6)) = {}
    BY <1>4, <2>1
  <2> HIDE DEF W
  <2> QED
    BY <1>4, <2>2, KeptAfter
<1> QED
  BY <1>2, <1>4, <1>5, <1>7, <1>8

\* A world in which a move from q to p has moved the device pointer, and perhaps more.
Moving(w, p, q) ==
  /\ w.gpu = [gpu EXCEPT ![p] = gpu[q], ![q] = None]
  /\ \A m \in Parts : /\ w.parts[p][m] \in {parts[p][m], parts[q][m]}
                      /\ w.parts[q][m] \in {None, parts[q][m]}
  /\ \A x \in Pipelines \ {p, q} : w.parts[x] = parts[x]

\* The device pointer is the first to move.
LEMMA MovedWorld ==
  ASSUME LifetimeTyped, NEW p \in Pipelines, NEW q \in Pipelines, p # q, NEW k \in 1..6
  PROVE  LET w == MovedUpto(p, q, k)
         IN  /\ Moving(w, p, q)
             /\ w.parts \in [Pipelines -> [Parts -> Places]]
             /\ k = 6 => \A m \in Parts : w.parts[p][m] = parts[q][m] /\ w.parts[q][m] = None
<1> DEFINE moved == {MoveOrder[i] : i \in 1..k}
           a == [m \in Parts |-> IF m \in moved THEN parts[q][m] ELSE parts[p][m]]
           b == [m \in Parts |-> IF m \in moved THEN None ELSE parts[q][m]]
           w == MovedUpto(p, q, k)
<1>1. "gpu" \in moved
  BY DEF MoveOrder
<1>2. k = 6 => \A m \in Parts : m \in moved
  BY DEF MoveOrder, Parts
<1>3. /\ w.gpu = IF "gpu" \in moved THEN [gpu EXCEPT ![p] = gpu[q], ![q] = None] ELSE gpu
      /\ w.parts = [parts EXCEPT ![p] = a, ![q] = b]
  BY DEF MovedUpto, LifetimeTyped
<1>4. /\ a \in [Parts -> Places] /\ \A m \in Parts : a[m] \in {parts[p][m], parts[q][m]}
      /\ b \in [Parts -> Places] /\ \A m \in Parts : b[m] \in {None, parts[q][m]}
      /\ k = 6 => \A m \in Parts : a[m] = parts[q][m] /\ b[m] = None
  BY <1>2 DEF LifetimeTyped, Places
<1> HIDE DEF w, a, b, moved
<1>5. /\ w.parts \in [Pipelines -> [Parts -> Places]]
      /\ w.parts[p] = a /\ w.parts[q] = b
      /\ \A x \in Pipelines \ {p, q} : w.parts[x] = parts[x]
  BY <1>3, <1>4 DEF LifetimeTyped
<1>6. w.gpu = [gpu EXCEPT ![p] = gpu[q], ![q] = None]
  BY <1>1, <1>3
<1> QED
  BY <1>4, <1>5, <1>6 DEF w, Moving

LEMMA MoveStep ==
  ASSUME LifetimeTyped, Kept, NEW p \in Pipelines, NEW q \in Pipelines, MoveAssign(p, q)
  PROVE  /\ p # q
         /\ gpu' = [gpu EXCEPT ![p] = gpu[q], ![q] = None]
         /\ parts' \in [Pipelines -> [Parts -> Places]]
         /\ mixed' = [mixed EXCEPT ![p] = mixed[q], ![q] = FALSE]
         /\ \A x \in Pipelines \ {p, q} : parts'[x] = parts[x]
         /\ \A m \in Parts : parts'[p][m] = parts[q][m] /\ parts'[q][m] = None
         /\ ~undefined' => Kept'
         /\ undefined' => LetGoBy(p)
<1> DEFINE W(k) == MovedUpto(p, q, k)
           ws == [k \in 1..6 |-> W(k)]
<1>1. Len(MoveOrder) = 6
  BY DEF MoveOrder
<1>2. p # q /\ Through(ws) /\ mixed' = [mixed EXCEPT ![p] = mixed[q], ![q] = FALSE]
  BY <1>1 DEF MoveAssign
<1>3. Len(ws) = 6 /\ DOMAIN ws = 1..6 /\ \A k \in 1..6 : ws[k] = W(k)
  OBVIOUS
<1> HIDE DEF ws
<1>4. gpu' = W(6).gpu /\ parts' = W(6).parts /\ undefined' = \E k \in 1..6 : Orphans(W(k)) # {}
  <2>1. Last(ws) = W(6)
    BY <1>3 DEF Last
  <2> QED
    BY <1>2, <1>3, <2>1 DEF Through
<1>5. /\ Moving(W(6), p, q)
      /\ W(6).parts \in [Pipelines -> [Parts -> Places]]
      /\ \A m \in Parts : W(6).parts[p][m] = parts[q][m] /\ W(6).parts[q][m] = None
  <2>1. 6 \in 1..6
    OBVIOUS
  <2> QED
    BY <1>2, <2>1, MovedWorld
<1>6. ASSUME undefined' PROVE LetGoBy(p)
  <2>1. PICK k \in 1..6 : Orphans(W(k)) # {}
    BY <1>4, <1>6
  <2>2. Moving(W(k), p, q)
    BY <1>2, MovedWorld
  <2> DEFINE w == W(k)
  <2> HIDE DEF W
  <2>3. /\ w.gpu = [gpu EXCEPT ![p] = gpu[q], ![q] = None]
        /\ \A m \in Parts : /\ w.parts[p][m] \in {parts[p][m], parts[q][m]}
                            /\ w.parts[q][m] \in {None, parts[q][m]}
        /\ \A x \in Pipelines \ {p, q} : w.parts[x] = parts[x]
    BY <2>2 DEF Moving
  <2>4. Orphans(w) # {}
    BY <2>1
  <2> HIDE DEF w
  <2>5. p \in Holders /\ q \in Holders /\ w.gpu[p] = gpu[q]
        /\ \A x \in Holders \ {p, q} : w.gpu[x] = gpu[x]
    BY <1>2, <2>3 DEF LifetimeTyped, Holders
  <2>6. \A x \in Pipelines, m \in Parts :
          w.parts[x][m] = None \/ \E y \in Pipelines : w.parts[x][m] = parts[y][m]
    <3>1. ASSUME NEW x \in Pipelines, NEW m \in Parts
          PROVE  w.parts[x][m] = None \/ \E y \in Pipelines : w.parts[x][m] = parts[y][m]
      <4>1. x = p \/ x = q \/ x \in Pipelines \ {p, q}
        OBVIOUS
      <4> QED
        BY <2>3, <4>1
    <3> QED
      BY <3>1
  <2>7. Known(w)
    BY <2>6 DEF Kept, Known
  <2>8. \A x \in Holders \ {p} : \E j \in Holders : w.gpu[j] = gpu[x]
    BY <2>5
  <2>9. /\ HoldsLast(p) /\ w.gpu[p] # gpu[p]
        /\ \E x \in Pipelines, m \in Parts : w.parts[x][m] = gpu[p]
    BY <2>4, <2>5, <2>7, <2>8, LetGo
  <2>10. gpu[p] # None
    BY <2>9 DEF HoldsLast
  <2>11. \E y \in Pipelines : MadeOn(y, gpu[p])
    BY <2>6, <2>9, <2>10 DEF MadeOn
  <2>12. gpu[q] # gpu[p]
    BY <2>5, <2>9
  <2>13. gpu'[p] # gpu[p]
    <3>1. gpu'[p] = gpu[q]
      BY <1>2, <1>4, <1>5 DEF Moving, LifetimeTyped, Holders
    <3> QED
      BY <2>12, <3>1
  <2> QED
    BY <2>9, <2>11, <2>12, <2>13 DEF LetGoBy
<1>7. ~undefined' => Kept'
  <2>1. 6 \in 1..6
    OBVIOUS
  <2>2. ~undefined' => Orphans(W(6)) = {}
    BY <1>4, <2>1
  <2> HIDE DEF W
  <2> QED
    BY <1>4, <2>2, KeptAfter
<1> HIDE DEF W
<1> QED
  BY <1>2, <1>4, <1>5, <1>6, <1>7 DEF Moving

-----------------------------------------------------------------------------
LEMMA LifetimeInvInit == LifetimeInit => LifetimeInv
<1> SUFFICES ASSUME LifetimeInit PROVE LifetimeInv
  OBVIOUS
<1>1. LifetimeTyped
  BY DEF LifetimeInit, LifetimeTyped, Holders, Places
<1>2. ObjectsOfOneDevice /\ Kept
  BY DEF LifetimeInit, ObjectsOfOneDevice, Kept
<1> QED
  BY <1>1, <1>2 DEF LifetimeInv

\* The objects of one pipeline.
OneDevice(p) ==
  ~mixed[p] =>
    \A m, n \in Parts :
      parts[p][m] # None /\ parts[p][n] # None => parts[p][m] = parts[p][n]

\* Something of a device added to a pipeline whose objects are of one.
LEMMA StaysOfOne ==
  ASSUME NEW p \in Pipelines, NEW d, OneDevice(p),
         \A m \in Parts : parts'[p][m] \in {d, parts[p][m]},
         ~mixed'[p] => ~mixed[p] /\ ~Mixes(p, d)
  PROVE  OneDevice(p)'
<1> SUFFICES ASSUME ~mixed'[p], NEW m \in Parts, NEW n \in Parts,
                    parts'[p][m] # None, parts'[p][n] # None
             PROVE  parts'[p][m] = parts'[p][n]
  BY DEF OneDevice
<1>1. ~mixed[p] /\ ~Mixes(p, d)
  OBVIOUS
<1>2. CASE d = None
  BY <1>1, <1>2 DEF OneDevice
<1>3. CASE d # None
  <2>1. d = gpu[p] /\ ~Separated(p)
    BY <1>1, <1>3 DEF Mixes
  <2>2. parts[p][m] \in {None, d} /\ parts[p][n] \in {None, d}
    BY <2>1 DEF Separated
  <2> QED
    BY <2>2
<1> QED
  BY <1>2, <1>3

\* Every call keeps the invariant, and ends a device too early only as LetGoBy says.
LEMMA LifetimeStep ==
  ASSUME LifetimeInv, LifetimeNext
  PROVE  /\ LifetimeTyped' /\ (\A x \in Pipelines : OneDevice(x)') /\ (~undefined' => Kept')
         /\ undefined' => \E h \in Holders : LetGoBy(h)
<1> DEFINE Goal ==
      /\ LifetimeTyped' /\ (\A x \in Pipelines : OneDevice(x)') /\ (~undefined' => Kept')
      /\ undefined' => \E h \in Holders : LetGoBy(h)
<1>0. LifetimeTyped /\ (\A x \in Pipelines : OneDevice(x)) /\ (~undefined => Kept)
  BY DEF LifetimeInv, ObjectsOfOneDevice, OneDevice
<1>1. ~undefined /\ Kept
  <2>1. ASSUME NEW v \in Pointers, NEW d \in Devices, Create(v, d) PROVE ~undefined
    BY <2>1 DEF Create
  <2>2. ASSUME NEW v \in Pointers, NEW u \in Pointers, Assign(v, u) PROVE ~undefined
    BY <2>2 DEF Assign
  <2>3. ASSUME NEW p \in Pipelines, NEW v \in Pointers, SetGpu(p, v) PROVE ~undefined
    BY <2>3 DEF SetGpu
  <2>4. ASSUME NEW p \in Pipelines, NEW d \in Devices \cup {None}, SetLayout(p, d) PROVE ~undefined
    BY <2>4 DEF SetLayout
  <2>5. ASSUME NEW p \in Pipelines, Build(p) \/ Destruct(p) PROVE ~undefined
    BY <2>5 DEF Build, Destruct
  <2>6. ASSUME NEW p \in Pipelines, NEW q \in Pipelines, MoveAssign(p, q) PROVE ~undefined
    BY <2>6 DEF MoveAssign
  <2> QED
    BY <1>0, <2>1, <2>2, <2>3, <2>4, <2>5, <2>6 DEF LifetimeNext
<1>2. ASSUME NEW h \in Holders, gpu' \in [Holders -> Places], UNCHANGED <<parts, mixed>>,
             ~undefined' => Kept', undefined' => LetGoBy(h)
      PROVE  Goal
  BY <1>0, <1>2 DEF LifetimeTyped, OneDevice
<1>3. ASSUME NEW v \in Pointers, NEW d \in Devices, Create(v, d) PROVE Goal
  <2>1. v \in Holders
    BY DEF Holders
  <2>2. gpu' \in [Holders -> Places]
    BY <1>0, <1>1, <1>3, CreateStep DEF LifetimeTyped, Places
  <2> HIDE DEF Goal
  <2> QED
    BY <1>0, <1>1, <1>2, <1>3, <2>1, <2>2, CreateStep
<1>4. ASSUME NEW v \in Pointers, NEW u \in Pointers, Assign(v, u) PROVE Goal
  <2>1. v \in Holders
    BY DEF Holders
  <2>2. gpu' \in [Holders -> Places]
    BY <1>0, <1>1, <1>4, AssignStep DEF LifetimeTyped, Holders
  <2> HIDE DEF Goal
  <2> QED
    BY <1>0, <1>1, <1>2, <1>4, <2>1, <2>2, AssignStep
<1>5. ASSUME NEW p \in Pipelines, NEW v \in Pointers, SetGpu(p, v) PROVE Goal
  <2>1. p \in Holders
    BY DEF Holders
  <2>2. gpu' \in [Holders -> Places]
    BY <1>0, <1>1, <1>5, SetGpuStep DEF LifetimeTyped, Holders
  <2> HIDE DEF Goal
  <2> QED
    BY <1>0, <1>1, <1>2, <1>5, <2>1, <2>2, SetGpuStep
<1>6. ASSUME NEW p \in Pipelines, NEW d \in Devices \cup {None}, SetLayout(p, d) PROVE Goal
  <2>1. /\ UNCHANGED gpu /\ parts' \in [Pipelines -> [Parts -> Places]]
        /\ mixed' = [mixed EXCEPT ![p] = @ \/ Mixes(p, d)]
        /\ \A q \in Pipelines \ {p} : parts'[q] = parts[q]
        /\ \A m \in Parts : parts'[p][m] \in {d, parts[p][m]}
        /\ ~undefined' /\ Kept'
    BY <1>0, <1>1, <1>6, SetLayoutStep
  <2> DEFINE b == mixed[p] \/ Mixes(p, d)
  <2>2. b \in BOOLEAN /\ mixed' = [mixed EXCEPT ![p] = b] /\ (~b => ~mixed[p] /\ ~Mixes(p, d))
    BY <2>1, Zenon
  <2> HIDE DEF b
  <2>3. LifetimeTyped' /\ mixed'[p] = b
    BY <1>0, <2>1, <2>2 DEF LifetimeTyped
  <2>4. OneDevice(p)'
    BY <1>0, <2>1, <2>2, <2>3, StaysOfOne
  <2>5. ASSUME NEW x \in Pipelines \ {p} PROVE OneDevice(x)'
    <3>1. parts'[x] = parts[x] /\ mixed'[x] = mixed[x]
      BY <1>0, <2>1, <2>2 DEF LifetimeTyped
    <3> QED
      BY <1>0, <3>1 DEF OneDevice
  <2> QED
    BY <2>1, <2>3, <2>4, <2>5
<1>7. ASSUME NEW p \in Pipelines, Build(p) PROVE Goal
  <2>1. /\ UNCHANGED gpu /\ parts' \in [Pipelines -> [Parts -> Places]]
        /\ mixed' \in [Pipelines -> BOOLEAN]
        /\ \A q \in Pipelines : q # p => parts'[q] = parts[q] /\ mixed'[q] = mixed[q]
        /\ \A m \in Parts : parts'[p][m] \in {gpu[p], parts[p][m]}
        /\ \/ \A m \in Parts : parts'[p][m] = gpu[p]
           \/ mixed'[p] = (mixed[p] \/ Mixes(p, gpu[p]))
        /\ ~undefined' /\ Kept'
    BY <1>0, <1>1, <1>7, BuildStep
  <2>2. LifetimeTyped'
    BY <1>0, <2>1 DEF LifetimeTyped
  <2>3. OneDevice(p)'
    <3>1. CASE \A m \in Parts : parts'[p][m] = gpu[p]
      BY <3>1 DEF OneDevice
    <3>2. CASE mixed'[p] = (mixed[p] \/ Mixes(p, gpu[p]))
      <4>1. ~mixed'[p] => ~mixed[p] /\ ~Mixes(p, gpu[p])
        BY <3>2, Zenon
      <4> QED
        BY <1>0, <2>1, <4>1, StaysOfOne
    <3> QED
      BY <2>1, <3>1, <3>2
  <2>4. ASSUME NEW x \in Pipelines \ {p} PROVE OneDevice(x)'
    BY <1>0, <2>1 DEF OneDevice
  <2> QED
    BY <2>1, <2>2, <2>3, <2>4
<1>8. ASSUME NEW p \in Pipelines, Destruct(p) PROVE Goal
  <2>1. /\ gpu' = [gpu EXCEPT ![p] = None] /\ parts' \in [Pipelines -> [Parts -> Places]]
        /\ mixed' = [mixed EXCEPT ![p] = FALSE]
        /\ \A q \in Pipelines : q # p => parts'[q] = parts[q]
        /\ \A m \in Parts : parts'[p][m] = None
    BY <1>0, <1>1, <1>8, DestructStep
  <2>2. (~undefined' => Kept') /\ (undefined' => LetGoBy(p)) /\ p \in Holders
    BY <1>0, <1>1, <1>8, DestructStep DEF Holders
  <2>3. LifetimeTyped'
    BY <1>0, <2>1 DEF LifetimeTyped, Places
  <2>4. \A x \in Pipelines : OneDevice(x)'
    BY <1>0, <2>1 DEF LifetimeTyped, OneDevice
  <2> QED
    BY <2>2, <2>3, <2>4
<1>9. ASSUME NEW p \in Pipelines, NEW q \in Pipelines, MoveAssign(p, q) PROVE Goal
  <2>1. /\ p # q
        /\ gpu' = [gpu EXCEPT ![p] = gpu[q], ![q] = None]
        /\ parts' \in [Pipelines -> [Parts -> Places]]
        /\ mixed' = [mixed EXCEPT ![p] = mixed[q], ![q] = FALSE]
        /\ \A x \in Pipelines \ {p, q} : parts'[x] = parts[x]
        /\ \A m \in Parts : parts'[p][m] = parts[q][m] /\ parts'[q][m] = None
    BY <1>0, <1>1, <1>9, MoveStep
  <2>2. (~undefined' => Kept') /\ (undefined' => LetGoBy(p)) /\ p \in Holders
    BY <1>0, <1>1, <1>9, MoveStep DEF Holders
  <2>3. LifetimeTyped'
    BY <1>0, <2>1 DEF LifetimeTyped, Places, Holders
  <2>4. ASSUME NEW x \in Pipelines \ {p, q} PROVE OneDevice(x)'
    <3>1. parts'[x] = parts[x] /\ mixed'[x] = mixed[x]
      BY <1>0, <2>1 DEF LifetimeTyped
    <3> QED
      BY <1>0, <3>1 DEF OneDevice
  <2>5. OneDevice(p)' /\ OneDevice(q)'
    <3>1. mixed'[p] = mixed[q]
      BY <1>0, <2>1 DEF LifetimeTyped
    <3> QED
      BY <1>0, <2>1, <3>1 DEF OneDevice
  <2> QED
    BY <2>2, <2>3, <2>4, <2>5
<1> HIDE DEF Goal
<1>10. Goal
  BY <1>3, <1>4, <1>5, <1>6, <1>7, <1>8, <1>9 DEF LifetimeNext
<1> QED
  BY <1>10 DEF Goal

LEMMA LifetimeInvNext == LifetimeInv /\ [LifetimeNext]_lifetimeVars => LifetimeInv'
<1> SUFFICES ASSUME LifetimeInv, [LifetimeNext]_lifetimeVars PROVE LifetimeInv'
  OBVIOUS
<1>1. CASE LifetimeNext
  BY <1>1, LifetimeStep DEF LifetimeInv, ObjectsOfOneDevice, OneDevice
<1>2. CASE UNCHANGED lifetimeVars
  BY <1>2 DEF lifetimeVars, LifetimeInv, LifetimeTyped, ObjectsOfOneDevice, Kept
<1> QED
  BY <1>1, <1>2

\* What the members of every pipeline are made on, and that somebody keeps it,
\* through all calls until a device has ended too early.
THEOREM LifetimeInvariant == LifetimeSpec => []LifetimeInv
BY LifetimeInvInit, LifetimeInvNext, PTL DEF LifetimeSpec

\* The objects of a pipeline are all of one device, unless it was given a layout of
\* another one, or a build threw half way after it was given another device
\* (pipeline.cpp:10-52, 75-79, 96-123).
THEOREM OfOneDevice == LifetimeSpec => []ObjectsOfOneDevice
BY LifetimeInvariant, PTL DEF LifetimeInv

\* A device ends before something made on it only when the last share of it is let
\* go of by another than the pipeline that holds the object, or by that pipeline in
\* set_gpu or when one of another device is moved over it (pipeline.cpp:10-52,
\* 75-89, 91-120, pipeline.hpp:14-21).
THEOREM DeviceOutlives == LifetimeSpec => DeviceOutlivesItsObjects
<1>1. LifetimeInv /\ [LifetimeNext]_lifetimeVars =>
        [undefined' =>
           \E h \in Pointers \cup Pipelines :
             /\ HoldsLast(h) /\ gpu'[h] # gpu[h]
             /\ \/ \E p \in Pipelines \ {h} : MadeOn(p, gpu[h])
                \/ /\ h \in Pipelines /\ MadeOn(h, gpu[h])
                   /\ \/ \E v \in Pointers : SetGpu(h, v)
                      \/ \E q \in Pipelines : gpu[q] # gpu[h] /\ MoveAssign(h, q)]_lifetimeVars
  <2> SUFFICES ASSUME LifetimeInv, LifetimeNext, undefined'
               PROVE  \E h \in Holders : LetGoBy(h)
    BY DEF LetGoBy, Holders
  <2> QED
    BY LifetimeStep
<1> QED
  BY <1>1, LifetimeInvariant, PTL DEF LifetimeSpec, DeviceOutlivesItsObjects
=============================================================================
