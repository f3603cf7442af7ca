---------------------------- MODULE LibraryProofs ----------------------------
(***************************************************************************)
(* Proofs about Library, for any files, texts and number of attachments:   *)
(* what is read is committed whole, two messages' files may overwrite one  *)
(* another, and a run may raise or be killed between any two statements.   *)
(***************************************************************************)
EXTENDS Library, TLAPS

-----------------------------------------------------------------------------
(* Sequences and the shapes of the two records                             *)

\* A bounded sequence is a sequence of at most that length.
LEMMA Bounded ==
  ASSUME NEW S, NEW n \in Nat
  PROVE  \A s : s \in BoundedSeq(S, n) <=> s \in Seq(S) /\ Len(s) <= n
<1>1. ASSUME NEW s \in BoundedSeq(S, n)
      PROVE  s \in Seq(S) /\ Len(s) <= n
  <2>1. PICK m \in 0..n : s \in [1..m -> S]
    BY DEF BoundedSeq, SeqOf
  <2> QED
    BY <2>1
<1>2. ASSUME NEW s \in Seq(S), Len(s) <= n
      PROVE  s \in BoundedSeq(S, n)
  <2>1. Len(s) \in 0..n /\ s \in [1..Len(s) -> S]
    BY <1>2
  <2> QED
    BY <2>1 DEF BoundedSeq, SeqOf
<1> QED
  BY <1>1, <1>2

\* The elements of a sequence of files.
LEMMA Elements ==
  ASSUME NEW S, NEW s \in Seq(S)
  PROVE  /\ ToSet(s) = {s[k] : k \in 1..Len(s)}
         /\ ToSet(s) \subseteq S
         /\ \A e \in S : ToSet(Append(s, e)) = ToSet(s) \union {e}
<1>1. DOMAIN s = 1..Len(s) /\ Len(s) \in Nat /\ \A k \in 1..Len(s) : s[k] \in S
  OBVIOUS
<1>2. ASSUME NEW e \in S
      PROVE  ToSet(Append(s, e)) = ToSet(s) \union {e}
  <2>1. /\ DOMAIN Append(s, e) = 1..(Len(s) + 1)
        /\ \A k \in 1..Len(s) : Append(s, e)[k] = s[k]
        /\ Append(s, e)[Len(s) + 1] = e
    OBVIOUS
  <2> QED
    BY <1>1, <2>1 DEF ToSet
<1> QED
  BY <1>1, <1>2 DEF ToSet

\* A message loses its first attachment and is a message still.
LEMMA RestOfMessage ==
  ASSUME NEW m \in Messages, m # <<>>
  PROVE  /\ Head(m) \in Attachments /\ Tail(m) \in Messages
         /\ Len(m) \in Nat /\ Len(Tail(m)) \in Nat /\ Len(m) = Len(Tail(m)) + 1
<1>1. /\ m \in Seq(Attachments) /\ Len(m) <= MaxFiles
      /\ \A j, k \in 1..Len(m) : m[j].name = m[k].name => j = k
  BY LibraryAssumption, Bounded DEF Messages
<1>2. /\ Head(m) \in Attachments /\ Tail(m) \in Seq(Attachments)
      /\ Len(m) = Len(Tail(m)) + 1 /\ Len(m) \in Nat /\ Len(Tail(m)) \in Nat
      /\ \A k \in 1..Len(Tail(m)) : Tail(m)[k] = m[k + 1]
  BY <1>1
<1>3. Tail(m) \in BoundedSeq(Attachments, MaxFiles)
  <2>1. MaxFiles \in Nat /\ Len(Tail(m)) <= MaxFiles
    BY <1>1, <1>2, LibraryAssumption
  <2> QED
    BY <1>2, <2>1, Bounded
<1>4. \A j, k \in 1..Len(Tail(m)) : Tail(m)[j].name = Tail(m)[k].name => j = k
  BY <1>1, <1>2
<1>5. DOMAIN Tail(m) = 1..Len(Tail(m))
  BY <1>2
<1> QED
  BY <1>2, <1>3, <1>4, <1>5 DEF Messages

\* Nothing sent, nothing run.
LEMMA EmptyTypes ==
  /\ Free \in RunType /\ Idle \in SendType
  /\ Free.pc = "free" /\ Free.own = {} /\ Free.atts = <<>> /\ ToSet(Free.atts) = {}
  /\ \A f \in Files : Free.read[f] = NoText
  /\ ToSet(Idle.saved) = {} /\ Idle.pc = "idle"
  /\ Len(Idle.saved) + Len(Idle.batch) <= MaxFiles
  /\ Free.i = 1 /\ Free.i <= Len(Free.atts) + 1
<1>1. <<>> \in BoundedSeq(Files, MaxFiles) /\ <<>> \in BoundedSeq(Attachments, MaxFiles)
  <2>1. MaxFiles \in Nat /\ Len(<<>>) <= MaxFiles
        /\ <<>> \in Seq(Files) /\ <<>> \in Seq(Attachments)
    BY LibraryAssumption
  <2> QED
    BY <2>1, Bounded
<1>2. <<>> \in Messages
  BY <1>1 DEF Messages
<1>3. ToSet(<<>>) = {}
  BY DEF ToSet
<1>4. Free \in RunType
  BY <1>1 DEF Free, RunType
<1>5. Idle \in SendType
  BY <1>1, <1>2 DEF Idle, SendType
<1>6. Idle.saved = <<>> /\ Idle.batch = <<>> /\ Len(<<>>) = 0
  BY DEF Idle
<1>7. Len(Idle.saved) + Len(Idle.batch) <= MaxFiles
  <2>1. MaxFiles \in Nat /\ Len(<<>>) + Len(<<>>) = 0
    BY LibraryAssumption
  <2> QED
    BY <1>6, <2>1
<1>8. Free.i = 1 /\ Free.i <= Len(Free.atts) + 1
  BY <1>6 DEF Free
<1> QED
  BY <1>3, <1>4, <1>5, <1>7, <1>8 DEF Free, Idle

\* The file an attachment is saved as.
LEMMA SaveAsFile ==
  ASSUME NEW n \in Names
  PROVE  SaveAs(n) \in Files
  BY DEF SaveAs, Names, Files

-----------------------------------------------------------------------------
(* The invariant, action by action                                         *)

LEMMA LibraryInit == Init => LibraryInv
<1> SUFFICES ASSUME Init PROVE LibraryInv
  OBVIOUS
<1>1. TypeOK
  BY EmptyTypes DEF Init, TypeOK
<1>2. UploadInv
  BY EmptyTypes DEF Init, UploadInv
<1>3. TransactionInv /\ LibraryIsKeyed /\ GroundedInv
  BY EmptyTypes DEF Init, TransactionInv, Writing, LibraryIsKeyed, GroundedInv
<1>4. AgreeInv /\ TurnsAgree
  BY EmptyTypes DEF Init, AgreeInv, TurnsAgree, Writing
<1> QED
  BY <1>1, <1>2, <1>3, <1>4 DEF LibraryInv

\* A file of the message is left out.
LEMMA DroppedKeeps ==
  ASSUME LibraryInv, send.pc = "upload", Dropped
  PROVE  /\ send' \in SendType /\ send'.saved = send.saved
         /\ send'.pc = "upload" => send'.batch # <<>>
         /\ Len(send'.saved) + Len(send'.batch) <= MaxFiles
<1>1. /\ Tail(send.batch) \in Messages /\ Len(send.batch) = Len(Tail(send.batch)) + 1
      /\ Len(Tail(send.batch)) \in Nat
  BY RestOfMessage DEF LibraryInv, UploadInv, TypeOK, SendType
<1>2. /\ send'.saved = send.saved /\ send'.batch = Tail(send.batch)
      /\ send' \in SendType
      /\ send'.pc = "upload" => send'.batch # <<>>
  BY <1>1 DEF Dropped, Uploaded, LibraryInv, TypeOK, SendType
<1>3. Len(send.saved) \in Nat /\ MaxFiles \in Nat
  BY LibraryAssumption, Bounded DEF LibraryInv, TypeOK, SendType
<1>4. Len(send'.saved) + Len(send'.batch) <= MaxFiles
  <2>1. Len(send.saved) + Len(send.batch) <= MaxFiles
    BY DEF LibraryInv, UploadInv
  <2>2. \A a, c, n \in Nat : a + (c + 1) <= n => a + c <= n
    OBVIOUS
  <2>3. Len(send.saved) + Len(Tail(send.batch)) <= MaxFiles
    BY <1>1, <1>3, <2>1, <2>2, Zenon
  <2> QED
    BY <1>2, <2>3
<1> QED
  BY <1>2, <1>4

\* The composer alone leaves the run thread and the library as they are.
LEMMA ComposerStep ==
  ASSUME LibraryInv, (\E m \in Messages : Send(m)) \/ SkipFile \/ Refuse \/ SendFails
  PROVE  LibraryInv'
<1>1. UNCHANGED <<folder, docs, tx, run>>
  BY DEF Send, SkipFile, Refuse, SendFails
<1>2. /\ send' \in SendType
      /\ send'.pc = "upload" => send'.batch # <<>>
      /\ Len(send'.saved) + Len(send'.batch) <= MaxFiles
      /\ ToSet(send'.saved) \subseteq ToSet(send.saved)
  <2>1. CASE \E m \in Messages : Send(m)
    <3>1. PICK m \in Messages : Send(m)
      BY <2>1
    <3>2. Len(m) <= MaxFiles /\ Len(m) \in Nat
      BY LibraryAssumption, Bounded DEF Messages
    <3>3. <<>> \in BoundedSeq(Files, MaxFiles) /\ ToSet(<<>>) = {} /\ Len(<<>>) = 0
      BY EmptyTypes DEF Idle, SendType
    <3> QED
      BY <3>1, <3>2, <3>3 DEF Send, SendType
  <2>2. CASE SkipFile
    BY <2>2, DroppedKeeps DEF SkipFile
  <2>3. CASE Refuse \/ SendFails
    <3>1. send' = Idle
      BY <2>3 DEF Refuse, SendFails
    <3> QED
      BY <3>1, EmptyTypes
  <2> QED
    BY <2>1, <2>2, <2>3
<1>3. TypeOK' /\ UploadInv'
  BY <1>1, <1>2 DEF LibraryInv, TypeOK, UploadInv
<1>4. /\ TransactionInv' /\ GroundedInv' /\ AgreeInv'
      /\ LibraryIsKeyed' /\ TurnsAgree'
  BY <1>1 DEF LibraryInv, TransactionInv, GroundedInv, AgreeInv, LibraryIsKeyed,
     TurnsAgree, Writing, More, Uri, Inserted
<1> QED
  BY <1>3, <1>4 DEF LibraryInv

\* What a run or a message names are files.
LEMMA FilesNamed ==
  ASSUME LibraryInv
  PROVE  /\ run.atts \in Seq(Files) /\ send.saved \in Seq(Files)
         /\ Len(run.atts) \in Nat /\ run.i \in Nat \ {0}
         /\ More => Uri \in Files /\ Uri \in ToSet(run.atts) /\ folder[Uri] \in Texts
         /\ \A j \in 1..(run.i - 1) :
              run.atts[j] \in Files /\ run.atts[j] \in ToSet(run.atts)
<1>1. /\ run.atts \in Seq(Files) /\ send.saved \in Seq(Files)
      /\ run.i \in Nat \ {0} /\ run.i <= Len(run.atts) + 1
  BY LibraryAssumption, Bounded DEF LibraryInv, TypeOK, RunType, SendType
<1>2. Len(run.atts) \in Nat
  BY <1>1
<1>3. \A j \in 1..Len(run.atts) : run.atts[j] \in Files /\ run.atts[j] \in ToSet(run.atts)
  BY <1>1, Elements
<1>4. More => run.i \in 1..Len(run.atts)
  BY <1>1, <1>2 DEF More
<1>5. More => folder[Uri] \in Texts
  BY <1>3, <1>4 DEF LibraryInv, UploadInv, Uri
<1>6. \A j \in 1..(run.i - 1) : j \in 1..Len(run.atts)
  BY <1>1, <1>2
<1> QED
  BY <1>1, <1>2, <1>3, <1>4, <1>5, <1>6 DEF Uri

\* A run that is over, however it ended, leaves what is committed.
LEMMA RunOver ==
  ASSUME LibraryInv, run' = Free, docs' = docs, tx' = docs, folder' = folder,
         send' \in {send, Idle}
  PROVE  LibraryInv'
<1>1. send' \in SendType /\ (send'.pc = "upload" => send'.batch # <<>>)
      /\ Len(send'.saved) + Len(send'.batch) <= MaxFiles
      /\ ToSet(send'.saved) \subseteq ToSet(send.saved)
  BY EmptyTypes DEF LibraryInv, TypeOK, UploadInv
<1>2. TypeOK' /\ UploadInv'
  BY <1>1, EmptyTypes DEF LibraryInv, TypeOK, UploadInv
<1>3. TransactionInv' /\ LibraryIsKeyed' /\ GroundedInv'
  BY EmptyTypes DEF LibraryInv, TransactionInv, Writing, LibraryIsKeyed, GroundedInv
<1>4. AgreeInv' /\ TurnsAgree'
  BY EmptyTypes DEF AgreeInv, TurnsAgree, Writing
<1> QED
  BY <1>2, <1>3, <1>4 DEF LibraryInv

\* A submitted message starts a run over its files, with nothing read yet.
LEMMA SubmitStep ==
  ASSUME LibraryInv, Submit
  PROVE  LibraryInv'
<1> DEFINE r == [Free EXCEPT !.pc = "own", !.atts = send.saved]
<1>1. /\ r \in RunType /\ r.pc = "own" /\ r.own = {} /\ r.atts = send.saved /\ r.i = 1
      /\ \A f \in Files : r.read[f] = NoText
  BY EmptyTypes DEF RunType, LibraryInv, TypeOK, SendType
<1>2. /\ run' = r /\ send' = Idle /\ UNCHANGED <<folder, docs, tx>> /\ run.pc = "free"
  BY DEF Submit
<1>3. 1 <= Len(send.saved) + 1
  BY FilesNamed
<1> HIDE DEF r
<1>4. TypeOK'
  BY <1>1, <1>2, <1>3, EmptyTypes DEF LibraryInv, TypeOK
<1>5. UploadInv'
  BY <1>1, <1>2, EmptyTypes DEF LibraryInv, UploadInv
<1>6. TransactionInv' /\ LibraryIsKeyed' /\ GroundedInv'
  BY <1>1, <1>2 DEF LibraryInv, TransactionInv, Writing, LibraryIsKeyed, GroundedInv
<1>7. AgreeInv' /\ TurnsAgree'
  BY <1>1, <1>2 DEF AgreeInv, TurnsAgree, Writing
<1> QED
  BY <1>4, <1>5, <1>6, <1>7 DEF LibraryInv

\* A write, whole or torn, may hit a file that the run has read or has still to
\* read; the run is marked, and what it holds is kept.
LEMMA PutTextKeeps ==
  ASSUME LibraryInv, NEW f \in Files, NEW text \in Texts, PutText(f, text),
         UNCHANGED <<docs, tx>>, send' \in SendType,
         send'.pc = "upload" => send'.batch # <<>>,
         Len(send'.saved) + Len(send'.batch) <= MaxFiles,
         ToSet(send'.saved) \subseteq ToSet(send.saved) \union {f}
  PROVE  LibraryInv'
<1>1. /\ folder' = [folder EXCEPT ![f] = text]
      /\ run' = [run EXCEPT !.moved = @ \/ f \in ToSet(run.atts)]
  BY DEF PutText
<1>2. /\ folder' \in [Files -> Texts \union {NoText}] /\ folder'[f] \in Texts
      /\ \A g \in Files \ {f} : folder'[g] = folder[g]
  BY <1>1 DEF LibraryInv, TypeOK
<1>3. /\ run' \in RunType /\ run'.pc = run.pc /\ run'.atts = run.atts
      /\ run'.i = run.i /\ run'.own = run.own /\ run'.read = run.read
      /\ ~run'.moved => ~run.moved /\ f \notin ToSet(run.atts)
  BY <1>1 DEF LibraryInv, TypeOK, RunType
<1>4. TypeOK'
  BY <1>2, <1>3 DEF LibraryInv, TypeOK
<1>5. UploadInv'
  <2>1. ToSet(send.saved) \subseteq Files /\ ToSet(run.atts) \subseteq Files
    BY FilesNamed, Elements
  <2>2. \A g \in ToSet(send'.saved) \union ToSet(run'.atts) : folder'[g] \in Texts
    BY <1>2, <1>3, <2>1 DEF LibraryInv, UploadInv
  <2> QED
    BY <2>2 DEF UploadInv
<1>6. /\ More' = More /\ Uri' = Uri /\ Inserted' = Inserted /\ Writing' = Writing
  BY <1>3 DEF More, Uri, Inserted, Writing
<1>7. TransactionInv' /\ LibraryIsKeyed' /\ GroundedInv'
  BY <1>3, <1>6 DEF LibraryInv, TransactionInv, LibraryIsKeyed, GroundedInv
<1>8. TurnsAgree'
  BY <1>3 DEF LibraryInv, TurnsAgree
<1>9. AgreeInv'
  <2> SUFFICES ASSUME ~run'.moved
               PROVE  AgreeInv'
    BY DEF AgreeInv
  <2>1. ~run.moved /\ \A g \in ToSet(run.atts) : g \in Files /\ folder'[g] = folder[g]
    BY <1>2, <1>3, FilesNamed, Elements
  <2>2. \A e \in run.own : folder'[e.uri] = folder[e.uri]
    BY <2>1 DEF LibraryInv, AgreeInv
  <2>3. Writing => folder'[Uri] = folder[Uri]
    BY <2>1, FilesNamed DEF LibraryInv, TransactionInv
  <2>4. \A j \in 1..(run.i - 1) : folder'[run.atts[j]] = folder[run.atts[j]]
    BY <2>1, FilesNamed
  <2> QED
    BY <1>3, <1>6, <2>1, <2>2, <2>3, <2>4 DEF LibraryInv, AgreeInv
<1> QED
  BY <1>4, <1>5, <1>7, <1>8, <1>9 DEF LibraryInv

\* The next file of the message is one of Files.
LEMMA NextUpload ==
  ASSUME LibraryInv, send.pc = "upload"
  PROVE  /\ Head(send.batch) \in Attachments /\ Head(send.batch).text \in Texts
         /\ SaveAs(Head(send.batch).name) \in Files
<1>1. Head(send.batch) \in Attachments
  BY RestOfMessage DEF LibraryInv, UploadInv, TypeOK, SendType
<1>2. Head(send.batch).name \in Names /\ Head(send.batch).text \in Texts
  BY <1>1 DEF Attachments
<1> QED
  BY <1>1, <1>2, SaveAsFile

\* An upload that fails half-way.
LEMMA SaveFailsStep ==
  ASSUME LibraryInv, SaveFails
  PROVE  LibraryInv'
<1>1. PICK f, text : /\ f = SaveAs(Head(send.batch).name) /\ text \in Texts
                     /\ PutText(f, text)
  BY DEF SaveFails
<1>2. f \in Files /\ send.pc = "upload" /\ Dropped /\ UNCHANGED <<docs, tx>>
  BY <1>1, NextUpload DEF SaveFails
<1>3. /\ send' \in SendType /\ send'.saved = send.saved
      /\ send'.pc = "upload" => send'.batch # <<>>
      /\ Len(send'.saved) + Len(send'.batch) <= MaxFiles
  BY <1>2, DroppedKeeps
<1> QED
  BY <1>1, <1>2, <1>3, PutTextKeeps

\* An upload adds one file to those of the message.
LEMMA SaveFileStep ==
  ASSUME LibraryInv, SaveFile
  PROVE  LibraryInv'
<1> DEFINE a == Head(send.batch)
           f == SaveAs(a.name)
<1>1. /\ Tail(send.batch) \in Messages
      /\ Len(Tail(send.batch)) \in Nat
      /\ Len(send.batch) = Len(Tail(send.batch)) + 1
  BY RestOfMessage DEF SaveFile, LibraryInv, UploadInv, TypeOK, SendType
<1>2. f \in Files /\ a.text \in Texts
  BY NextUpload DEF SaveFile
<1>3. /\ PutText(f, a.text)
      /\ send' = Uploaded([send EXCEPT !.batch = Tail(@), !.saved = Append(@, f)])
      /\ UNCHANGED <<docs, tx>>
  BY DEF SaveFile
<1> HIDE DEF a, f
<1>4. /\ Len(Append(send.saved, f)) = Len(send.saved) + 1 /\ Len(send.saved) \in Nat
      /\ Append(send.saved, f) \in Seq(Files)
      /\ ToSet(Append(send.saved, f)) = ToSet(send.saved) \union {f}
  BY <1>2, FilesNamed, Elements
<1>5. Len(Append(send.saved, f)) + Len(Tail(send.batch)) <= MaxFiles
  <2>1. Len(send.saved) + Len(send.batch) <= MaxFiles
    BY DEF LibraryInv, UploadInv
  <2>2. \A n, m, most \in Nat : n + (m + 1) <= most => (n + 1) + m <= most
    OBVIOUS
  <2>3. MaxFiles \in Nat
    BY LibraryAssumption
  <2> QED
    BY <1>1, <1>4, <2>1, <2>2, <2>3, Zenon
<1>6. Append(send.saved, f) \in BoundedSeq(Files, MaxFiles)
  <2>1. \A n, m, most \in Nat : (n + 1) + m <= most => n + 1 <= most
    OBVIOUS
  <2>2. MaxFiles \in Nat
    BY LibraryAssumption
  <2>3. Len(Append(send.saved, f)) <= MaxFiles
    BY <1>1, <1>4, <1>5, <2>1, <2>2, Zenon
  <2> QED
    BY <1>4, <2>2, <2>3, Bounded
<1>7. /\ send' \in SendType /\ send'.saved = Append(send.saved, f)
      /\ send'.batch = Tail(send.batch)
      /\ send'.pc = "upload" => send'.batch # <<>>
  BY <1>1, <1>3, <1>6 DEF Uploaded, LibraryInv, TypeOK, SendType
<1> QED
  BY <1>2, <1>3, <1>4, <1>5, <1>7, PutTextKeeps

\* A step of the run thread leaves the message being sent and the folder alone;
\* what it has to keep is the shape of the run and the files it names.
LEMMA ThreadTypes ==
  ASSUME LibraryInv, UNCHANGED <<folder, send>>, run' \in RunType,
         run'.atts = run.atts, run'.i <= Len(run.atts) + 1,
         docs' \subseteq Docs, tx' \subseteq Docs
  PROVE  TypeOK' /\ UploadInv'
  BY DEF LibraryInv, TypeOK, UploadInv

\* There is a next index after one that names a file.
LEMMA NextIndex ==
  ASSUME LibraryInv, More
  PROVE  /\ run.i + 1 \in Nat \ {0} /\ run.i + 1 <= Len(run.atts) + 1
         /\ \A j \in 1..(run.i + 1 - 1) : j \in 1..(run.i - 1) \/ j = run.i
         /\ NextFile(run) \in RunType
         /\ NextFile(run) = [run EXCEPT !.i = run.i + 1]
<1>1. run.i \in Nat \ {0} /\ run.i + 1 \in Nat \ {0}
  BY FilesNamed
<1>2. NextFile(run) = [run EXCEPT !.i = run.i + 1] /\ NextFile(run) \in RunType
  BY <1>1 DEF NextFile, LibraryInv, TypeOK, RunType
<1>3. run.i + 1 <= Len(run.atts) + 1
  BY <1>1, FilesNamed DEF More
<1> QED
  BY <1>1, <1>2, <1>3

\* The throwaway library takes one document per name and text.
LEMMA BuildKbStep ==
  ASSUME LibraryInv, BuildKb
  PROVE  LibraryInv'
<1>1. CASE run' = Free
  <2>1. UNCHANGED <<docs, tx, folder, send>> /\ tx = docs
    BY <1>1, EmptyTypes DEF BuildKb, Raises, LibraryInv, TransactionInv, Writing
  <2> QED
    BY <1>1, <2>1, RunOver
<1>2. CASE run' # Free
  <2>1. /\ UNCHANGED <<docs, tx, folder, send>> /\ run.pc = "own" /\ More
        /\ run.i + 1 \in Nat \ {0}
    BY <1>2, NextIndex DEF BuildKb, Raises
  <2>2. /\ run' \in RunType /\ run'.pc = "own" /\ run'.atts = run.atts
        /\ run'.i = run.i + 1 /\ run'.read = run.read /\ run'.moved = run.moved
        /\ \A e \in run'.own : e \in run.own \/ (e = Given /\ Extractable)
    <3>1. CASE ~Extractable
      BY <1>2, <2>1, <3>1 DEF BuildKb, NextFile, LibraryInv, TypeOK, RunType
    <3>2. CASE Extractable
      <4> DEFINE o == Others(Given, run.own) \union {Given}
      <4>1. Given \in Docs
        BY <2>1, FilesNamed DEF Given, Docs
      <4>2. o \in SUBSET Docs /\ \A e \in o : e \in run.own \/ e = Given
        BY <4>1 DEF Others, LibraryInv, TypeOK, RunType
      <4>3. run' = NextFile([run EXCEPT !.own = o])
        BY <1>2, <2>1, <3>2 DEF BuildKb, Raises
      <4> HIDE DEF o
      <4> QED
        BY <2>1, <3>2, <4>2, <4>3 DEF NextFile, LibraryInv, TypeOK, RunType
    <3> QED
      BY <3>1, <3>2
  <2>3. TypeOK' /\ UploadInv'
    BY <2>1, <2>2, NextIndex, ThreadTypes DEF LibraryInv, TypeOK
  <2>4. TransactionInv' /\ LibraryIsKeyed' /\ GroundedInv' /\ TurnsAgree'
    BY <2>1, <2>2 DEF LibraryInv, TransactionInv, LibraryIsKeyed, GroundedInv,
       TurnsAgree, Writing
  <2>5. AgreeInv'
    <3>1. Given.uri = Uri /\ Given.text = folder[Uri] /\ Uri \in ToSet(run.atts)
      BY <2>1, FilesNamed DEF Given
    <3> QED
      BY <2>1, <2>2, <3>1 DEF LibraryInv, AgreeInv, Writing, Extractable
  <2> QED
    BY <2>3, <2>4, <2>5 DEF LibraryInv
<1> QED
  BY <1>1, <1>2

\* The second reading begins.
LEMMA OpenKbStep ==
  ASSUME LibraryInv, OpenKb
  PROVE  LibraryInv'
<1>1. /\ UNCHANGED <<docs, tx, folder, send>> /\ run.pc = "own"
      /\ run' \in RunType /\ run'.pc = "shared" /\ run'.atts = run.atts
      /\ run'.i = 1 /\ run'.read = run.read /\ run'.moved = run.moved
      /\ run'.own = run.own
  <2> DEFINE r == [run EXCEPT !.pc = "shared", !.i = 1]
  <2>1. run \in RunType
    BY DEF LibraryInv, TypeOK
  <2>2. /\ r.pc = "shared" /\ r.i = 1 /\ r.atts = run.atts /\ r.read = run.read
        /\ r.moved = run.moved /\ r.own = run.own
    BY <2>1 DEF RunType
  <2>3. r \in RunType
    <3> DEFINE q == [run EXCEPT !.pc = "shared"]
    <3>1. q \in RunType
      BY <2>1 DEF RunType
    <3>2. r = [q EXCEPT !.i = 1]
      OBVIOUS
    <3> HIDE DEF q, r
    <3> QED
      BY <3>1, <3>2 DEF RunType
  <2>4. run' = r /\ UNCHANGED <<docs, tx, folder, send>> /\ run.pc = "own"
    BY DEF OpenKb
  <2> HIDE DEF r
  <2> QED
    BY <2>2, <2>3, <2>4
<1>2. TypeOK' /\ UploadInv'
  <2>1. 1 <= Len(run.atts) + 1
    BY FilesNamed
  <2> QED
    BY <1>1, <2>1, ThreadTypes DEF LibraryInv, TypeOK
<1>3. TransactionInv' /\ LibraryIsKeyed' /\ GroundedInv' /\ TurnsAgree'
  BY <1>1 DEF LibraryInv, TransactionInv, LibraryIsKeyed, GroundedInv, TurnsAgree,
     Writing
<1>4. AgreeInv'
  BY <1>1 DEF LibraryInv, AgreeInv, Writing
<1> QED
  BY <1>2, <1>3, <1>4 DEF LibraryInv

\* The run with the text of the current file read.
LEMMA ReadFields ==
  ASSUME LibraryInv, More
  PROVE  LET r == [run EXCEPT !.read[Uri] = Given.text] IN
         /\ r \in RunType /\ r.pc = run.pc /\ r.atts = run.atts /\ r.i = run.i
         /\ r.own = run.own /\ r.moved = run.moved
         /\ r.read[Uri] = folder[Uri]
         /\ \A f \in Files : f # Uri => r.read[f] = run.read[f]
<1> DEFINE t == [run.read EXCEPT ![Uri] = folder[Uri]]
<1>1. /\ t \in [Files -> Texts \union {NoText}] /\ t[Uri] = folder[Uri]
      /\ \A f \in Files : f # Uri => t[f] = run.read[f]
  BY FilesNamed DEF LibraryInv, TypeOK, RunType
<1>2. [run EXCEPT !.read[Uri] = Given.text] = [run EXCEPT !.read = t]
  BY DEF Given
<1> HIDE DEF t
<1> QED
  BY <1>1, <1>2 DEF LibraryInv, TypeOK, RunType

\* Both readings agree on one more file when it is in the library as the folder
\* holds it and the files before it are there still.
LEMMA AgreeNext ==
  ASSUME LibraryInv, More, folder' = folder, run'.pc = "shared",
         run'.atts = run.atts, run'.i = run.i + 1, run'.own = run.own,
         run'.moved = run.moved, Writing \/ run.pc = "shared",
         ASSUME ~run.moved, folder[Uri] \notin Unreadable
         PROVE  [uri |-> Uri, text |-> folder[Uri]] \in docs',
         \A j \in 1..(run.i - 1) :
           [uri |-> run.atts[j], text |-> folder[run.atts[j]]] \in docs /\ ~run.moved =>
             [uri |-> run.atts[j], text |-> folder[run.atts[j]]] \in docs'
  PROVE  AgreeInv'
<1> SUFFICES ASSUME ~run.moved
             PROVE  AgreeInv'
  BY DEF AgreeInv
<1>1. run.i \in Nat \ {0}
  BY FilesNamed
<1>2. ASSUME NEW j \in 1..(run.i + 1 - 1), folder[run.atts[j]] \notin Unreadable
      PROVE  [uri |-> run.atts[j], text |-> folder[run.atts[j]]] \in docs'
  <2>1. CASE j = run.i
    BY <1>2, <2>1 DEF Uri
  <2>2. CASE j # run.i
    <3>1. j \in 1..(run.i - 1)
      BY <1>1, <2>2
    <3>2. [uri |-> run.atts[j], text |-> folder[run.atts[j]]] \in docs
      BY <1>2, <3>1 DEF LibraryInv, AgreeInv
    <3> QED
      BY <3>1, <3>2
  <2> QED
    BY <2>1, <2>2
<1>3. \A e \in run'.own : e.uri \in ToSet(run'.atts) /\ e.text = folder'[e.uri]
                          /\ e.text \notin Unreadable
  BY DEF LibraryInv, AgreeInv
<1>4. \A j \in 1..(run'.i - 1) : folder'[run'.atts[j]] \notin Unreadable =>
        [uri |-> run'.atts[j], text |-> folder'[run'.atts[j]]] \in docs'
  <2>1. run'.i = run.i + 1 /\ run'.atts = run.atts /\ folder' = folder
    OBVIOUS
  <2>2. ASSUME NEW j \in 1..(run'.i - 1), folder'[run'.atts[j]] \notin Unreadable
        PROVE  [uri |-> run'.atts[j], text |-> folder'[run'.atts[j]]] \in docs'
    <3>1. j \in 1..(run.i + 1 - 1) /\ folder[run.atts[j]] \notin Unreadable
      BY <1>1, <2>1, <2>2
    <3>2. [uri |-> run.atts[j], text |-> folder[run.atts[j]]] \in docs'
      BY <1>2, <3>1
    <3> QED
      BY <2>1, <3>2
  <2> QED
    BY <2>2
<1> QED
  BY <1>3, <1>4 DEF AgreeInv, Writing

\* The second reading of one file: nothing to do, or its old text is deleted in a
\* transaction of its own.
LEMMA SupersedeStep ==
  ASSUME LibraryInv, Supersede
  PROVE  LibraryInv'
<1> DEFINE r == [run EXCEPT !.read[Uri] = Given.text]
<1>1. /\ UNCHANGED <<folder, send, docs>> /\ run.pc = "shared" /\ More
      /\ docs \subseteq Docs /\ tx = docs /\ run.i <= Len(run.atts) + 1
      /\ run.i + 1 \in Nat \ {0} /\ run.i + 1 <= Len(run.atts) + 1
  BY NextIndex DEF Supersede, LibraryInv, TypeOK, TransactionInv, Writing
<1>2. /\ r \in RunType /\ r.pc = run.pc /\ r.atts = run.atts /\ r.i = run.i
      /\ r.own = run.own /\ r.moved = run.moved
      /\ r.read[Uri] = folder[Uri]
      /\ \A f \in Files : f # Uri => r.read[f] = run.read[f]
  BY <1>1, ReadFields
<1>3. folder[Uri] \in Texts /\ Uri \in Files
  BY <1>1, FilesNamed
<1>4. CASE ~Extractable
  <2>1. /\ run' \in RunType /\ run'.pc = "shared" /\ run'.atts = run.atts
        /\ run'.i = run.i + 1 /\ run'.read = run.read /\ run'.moved = run.moved
        /\ run'.own = run.own /\ tx' = docs
    BY <1>1, <1>4 DEF Supersede, NextFile, LibraryInv, TypeOK, RunType
  <2>2. TypeOK' /\ UploadInv'
    BY <1>1, <2>1, ThreadTypes
  <2>3. TransactionInv' /\ LibraryIsKeyed' /\ GroundedInv' /\ TurnsAgree'
    BY <1>1, <2>1 DEF LibraryInv, TransactionInv, LibraryIsKeyed, GroundedInv,
       TurnsAgree, Writing
  <2>4. AgreeInv'
    BY <1>1, <1>4, <2>1, AgreeNext DEF Extractable
  <2> QED
    BY <2>2, <2>3, <2>4 DEF LibraryInv
<1>5. CASE Extractable /\ Known(Given)
  <2>1. run' = NextFile(r) /\ tx' = docs
    BY <1>1, <1>5 DEF Supersede
  <2> HIDE DEF r
  <2>2. /\ run' \in RunType /\ run'.pc = "shared" /\ run'.atts = run.atts
        /\ run'.i = run.i + 1 /\ run'.read = r.read /\ run'.moved = run.moved
        /\ run'.own = run.own
    BY <1>1, <1>2, <2>1 DEF NextFile, RunType
  <2>3. [uri |-> Uri, text |-> folder[Uri]] \in docs
    BY <1>5 DEF Known, Given
  <2>4. TypeOK' /\ UploadInv'
    BY <1>1, <2>1, <2>2, ThreadTypes
  <2>5. TransactionInv' /\ LibraryIsKeyed' /\ TurnsAgree'
    BY <1>1, <2>1, <2>2 DEF LibraryInv, TransactionInv, LibraryIsKeyed, TurnsAgree,
       Writing
  <2>6. GroundedInv'
    BY <1>1, <1>2, <2>2, <2>3 DEF LibraryInv, GroundedInv, Writing
  <2>7. AgreeInv'
    BY <1>1, <2>2, <2>3, AgreeNext
  <2> QED
    BY <2>4, <2>5, <2>6, <2>7 DEF LibraryInv
<1>6. CASE Extractable /\ ~Known(Given)
  <2>1. run' = [r EXCEPT !.pc = "inserting"] /\ tx' = Others(Given, docs)
    BY <1>1, <1>6 DEF Supersede
  <2> HIDE DEF r
  <2>2. /\ run' \in RunType /\ run'.pc = "inserting" /\ run'.atts = run.atts
        /\ run'.i = run.i /\ run'.read = r.read /\ run'.moved = run.moved
        /\ run'.own = run.own
    BY <1>2, <2>1 DEF RunType
  <2>3. /\ Uri' = Uri /\ More' = More /\ Writing' /\ run'.read[Uri] = folder[Uri]
        /\ Inserted' = Given
    BY <1>2, <2>2 DEF Uri, More, Writing, Inserted, Given
  <2>4. Others(Given, docs) \subseteq docs
    BY DEF Others
  <2>5. TypeOK' /\ UploadInv'
    BY <1>1, <2>1, <2>2, <2>4, ThreadTypes
  <2>6. TransactionInv' /\ LibraryIsKeyed' /\ TurnsAgree'
    BY <1>1, <1>3, <2>1, <2>2, <2>3 DEF LibraryInv, TransactionInv, LibraryIsKeyed,
       TurnsAgree
  <2>7. GroundedInv'
    BY <1>1, <1>2, <2>2, <2>3 DEF LibraryInv, GroundedInv, Writing
  <2>8. AgreeInv'
    BY <1>1, <2>2, <2>3 DEF LibraryInv, AgreeInv
  <2> QED
    BY <2>5, <2>6, <2>7, <2>8 DEF LibraryInv
<1> QED
  BY <1>4, <1>5, <1>6

\* The document is written, or its text is there under another name.
LEMMA InsertStep ==
  ASSUME LibraryInv, Insert
  PROVE  LibraryInv'
<1>1. CASE \E e \in tx : e.text = Inserted.text
  BY <1>1, RunOver DEF Insert, Raises
<1>2. CASE ~\E e \in tx : e.text = Inserted.text
  <2>1. /\ tx' = tx \union {Inserted} /\ UNCHANGED <<folder, send, docs>>
        /\ run.pc = "inserting" /\ run' = [run EXCEPT !.pc = "committing"]
    BY <1>2 DEF Insert
  <2>2. /\ run' \in RunType /\ run'.pc = "committing" /\ run'.atts = run.atts
        /\ run'.i = run.i /\ run'.read = run.read /\ run'.moved = run.moved
        /\ run'.own = run.own
    BY <2>1 DEF LibraryInv, TypeOK, RunType
  <2>3. More /\ run.read[Uri] \in Texts /\ tx = Others(Inserted, docs) /\ Writing
    BY <2>1 DEF LibraryInv, TransactionInv, Writing
  <2>4. Inserted \in Docs
    BY <2>3, FilesNamed DEF Inserted, Docs
  <2>5. Uri' = Uri /\ More' = More /\ Writing' /\ Inserted' = Inserted
    BY <2>2 DEF Uri, More, Writing, Inserted
  <2>6. TypeOK' /\ UploadInv'
    BY <2>1, <2>2, <2>4, ThreadTypes DEF LibraryInv, TypeOK
  <2>7. TransactionInv' /\ LibraryIsKeyed' /\ GroundedInv' /\ TurnsAgree'
    BY <1>2, <2>1, <2>2, <2>3, <2>5 DEF LibraryInv, TransactionInv, LibraryIsKeyed,
       GroundedInv, TurnsAgree, Taken
  <2>8. AgreeInv'
    BY <2>1, <2>2, <2>3, <2>5 DEF LibraryInv, AgreeInv
  <2> QED
    BY <2>6, <2>7, <2>8 DEF LibraryInv
<1> QED
  BY <1>1, <1>2

\* The deletion and the insertion become visible at once.
LEMMA CommitStep ==
  ASSUME LibraryInv, Commit
  PROVE  /\ LibraryInv'
         /\ \A d \in docs : d \in docs' \/ \E e \in docs' : e.uri = d.uri
<1>1. /\ docs' = tx /\ tx' = tx /\ UNCHANGED <<folder, send>> /\ run.pc = "committing"
      /\ run' = NextFile([run EXCEPT !.pc = "shared"])
  BY DEF Commit
<1>2. /\ More /\ run.read[Uri] \in Texts /\ Writing
      /\ tx = Others(Inserted, docs) \union {Inserted} /\ ~Taken(Inserted, docs)
      /\ Inserted.uri = Uri /\ Inserted = [uri |-> Uri, text |-> run.read[Uri]]
  BY <1>1 DEF LibraryInv, TransactionInv, Writing, Inserted
<1>3. /\ run.i + 1 \in Nat \ {0} /\ run.i + 1 <= Len(run.atts) + 1
  BY <1>2, NextIndex
<1>4. /\ run' \in RunType /\ run'.pc = "shared" /\ run'.atts = run.atts
      /\ run'.i = run.i + 1 /\ run'.read = run.read /\ run'.moved = run.moved
      /\ run'.own = run.own
  BY <1>1, <1>3 DEF NextFile, LibraryInv, TypeOK, RunType
<1>5. TypeOK' /\ UploadInv'
  BY <1>1, <1>3, <1>4, ThreadTypes DEF LibraryInv, TypeOK
<1>6. \A d \in docs : d.uri # Uri => d \in docs'
  BY <1>1, <1>2 DEF Others
<1>7. LibraryIsKeyed'
  <2>1. \A d \in docs' : d = Inserted \/ (d \in docs /\ d.uri # Uri /\ d.text # Inserted.text)
    BY <1>1, <1>2 DEF Others, Taken
  <2> QED
    BY <1>2, <2>1 DEF LibraryInv, LibraryIsKeyed
<1>8. TransactionInv' /\ TurnsAgree'
  BY <1>1, <1>4 DEF TransactionInv, TurnsAgree, Writing
<1>9. GroundedInv'
  <2>1. ASSUME NEW f \in Files, run.read[f] # NoText
        PROVE  [uri |-> f, text |-> run.read[f]] \in docs'
    <3>1. CASE f = Uri
      BY <1>1, <1>2, <3>1
    <3>2. CASE f # Uri
      BY <1>6, <2>1, <3>2 DEF LibraryInv, GroundedInv
    <3> QED
      BY <3>1, <3>2
  <2> QED
    BY <1>4, <2>1 DEF GroundedInv
<1>10. AgreeInv'
  <2>1. ~run.moved => run.read[Uri] = folder[Uri]
    BY <1>2 DEF LibraryInv, AgreeInv
  <2>2. ~run.moved => [uri |-> Uri, text |-> folder[Uri]] \in docs'
    BY <1>1, <1>2, <2>1
  <2>3. ASSUME NEW j \in 1..(run.i - 1), ~run.moved,
               [uri |-> run.atts[j], text |-> folder[run.atts[j]]] \in docs
        PROVE  [uri |-> run.atts[j], text |-> folder[run.atts[j]]] \in docs'
    <3>1. CASE run.atts[j] = Uri
      BY <2>2, <2>3, <3>1
    <3>2. CASE run.atts[j] # Uri
      BY <1>6, <2>3, <3>2
    <3> QED
      BY <3>1, <3>2
  <2> QED
    BY <1>1, <1>2, <1>4, <2>2, <2>3, AgreeNext
<1>11. \A d \in docs : d \in docs' \/ \E e \in docs' : e.uri = d.uri
  BY <1>1, <1>2, <1>6
<1> QED
  BY <1>5, <1>7, <1>8, <1>9, <1>10, <1>11 DEF LibraryInv

\* The task begins with both readings done, and ends.
LEMMA TaskStep ==
  ASSUME LibraryInv, StartTask \/ EndTask
  PROVE  LibraryInv'
<1>1. CASE StartTask
  <2>1. /\ UNCHANGED <<docs, tx, folder, send>> /\ run.pc = "shared" /\ ~More
        /\ run' \in RunType /\ run'.pc = "driving" /\ run'.atts = run.atts
        /\ run'.i = run.i /\ run'.read = run.read /\ run'.moved = run.moved
        /\ run'.own = run.own
    BY <1>1 DEF StartTask, LibraryInv, TypeOK, RunType
  <2>2. TypeOK' /\ UploadInv'
    BY <2>1, ThreadTypes DEF LibraryInv, TypeOK
  <2>3. TransactionInv' /\ LibraryIsKeyed' /\ GroundedInv'
    BY <2>1 DEF LibraryInv, TransactionInv, LibraryIsKeyed, GroundedInv, Writing
  <2>4. AgreeInv'
    BY <2>1 DEF LibraryInv, AgreeInv, Writing
  <2>5. ASSUME ~run.moved, NEW e \in run.own
        PROVE  e \in docs
    <3>1. /\ e.uri \in ToSet(run.atts) /\ e.text = folder[e.uri]
          /\ e.text \notin Unreadable /\ e \in Docs
      BY <2>5 DEF LibraryInv, AgreeInv, TypeOK, RunType
    <3>2. PICK j \in 1..Len(run.atts) : run.atts[j] = e.uri
      BY <3>1, FilesNamed, Elements
    <3>3. j \in 1..(run.i - 1)
      BY <2>1, <3>2, FilesNamed DEF More
    <3>4. [uri |-> e.uri, text |-> e.text] \in docs
      BY <2>1, <2>5, <3>1, <3>2, <3>3 DEF LibraryInv, AgreeInv
    <3>5. e = [uri |-> e.uri, text |-> e.text]
      BY <3>1 DEF Docs
    <3> QED
      BY <3>4, <3>5
  <2>6. TurnsAgree'
    BY <2>1, <2>5 DEF TurnsAgree
  <2> QED
    BY <2>2, <2>3, <2>4, <2>6 DEF LibraryInv
<1>2. CASE EndTask
  <2>1. run' = Free /\ UNCHANGED <<folder, send, docs, tx>> /\ tx = docs
    BY <1>2 DEF EndTask, LibraryInv, TransactionInv, Writing
  <2> QED
    BY <2>1, RunOver
<1> QED
  BY <1>1, <1>2

LEMMA LibraryStep == LibraryInv /\ [Next]_vars => LibraryInv'
<1> SUFFICES ASSUME LibraryInv, [Next]_vars PROVE LibraryInv'
  OBVIOUS
<1>1. CASE Composer
  BY <1>1, ComposerStep, SaveFileStep, SaveFailsStep, SubmitStep DEF Composer
<1>2. CASE Thread
  <2>1. PrepareFails => LibraryInv'
    BY RunOver DEF PrepareFails, Raises
  <2> QED
    BY <1>2, <2>1, BuildKbStep, OpenKbStep, SupersedeStep, InsertStep, CommitStep,
       TaskStep DEF Thread
<1>3. CASE Kill
  BY <1>3, RunOver DEF Kill, Raises
<1>4. CASE UNCHANGED vars
  BY <1>4 DEF vars, LibraryInv, TypeOK, UploadInv, TransactionInv, GroundedInv,
     AgreeInv, LibraryIsKeyed, TurnsAgree, Writing, More, Uri, Inserted
<1> QED
  BY <1>1, <1>2, <1>3, <1>4 DEF Next

-----------------------------------------------------------------------------
(* The theorems                                                            *)

\* At every moment, whatever is uploaded, raised or killed in between, the
\* committed library has one text per name and one name per text, and a task that
\* runs has drafted from documents its follow-ups find again, unless one of its
\* files was overwritten between the two readings.
THEOREM LibraryInvariance == Spec => []LibraryInv
<1> QED
  BY LibraryInit, LibraryStep, PTL DEF Spec

\* A task is minted only with the text last read of each of its attachments
\* committed under the attachment's name.
THEOREM StartedTasksAreGrounded == Spec => []StartedIsGrounded
<1>1. LibraryInv => StartedIsGrounded
  <2> SUFFICES ASSUME LibraryInv PROVE StartedIsGrounded
    OBVIOUS
  <2>1. ToSet(run.atts) \subseteq Files
    BY FilesNamed, Elements
  <2> QED
    BY <2>1 DEF LibraryInv, GroundedInv, StartedIsGrounded, Writing
<1> QED
  BY <1>1, LibraryInvariance, PTL

\* Whatever raises or is killed, a committed document gives way only to a newer
\* text of the same name.
THEOREM DocumentsAreKept == Spec => DocumentsOutliveRuns
<1>1. LibraryInv /\ [Next]_vars =>
        [\A d \in docs : d \in docs' \/ \E e \in docs' : e.uri = d.uri]_vars
  <2> SUFFICES ASSUME LibraryInv, Next
               PROVE  \A d \in docs : d \in docs' \/ \E e \in docs' : e.uri = d.uri
    OBVIOUS
  <2>1. Commit \/ docs' = docs
    BY DEF Next, Composer, Thread, Send, SaveFile, SaveFails, SkipFile, Submit, Refuse,
       SendFails, BuildKb, OpenKb, Supersede, Insert, StartTask, EndTask,
       PrepareFails, Kill, Raises
  <2> QED
    BY <2>1, CommitStep
<1> QED
  BY <1>1, LibraryInvariance, PTL DEF Spec, DocumentsOutliveRuns
=============================================================================
