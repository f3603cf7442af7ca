------------------------------- MODULE Library -------------------------------
(***************************************************************************)
(* Attachments and the document library.  The composer of the desktop      *)
(* shell uploads the files of a message into the session's folder          *)
(* (save_attachments) and then submits the message with the list of what   *)
(* was saved.  The run thread reads each document twice: into a throwaway  *)
(* library for authoring (build_kb) and into the persistent one            *)
(* (ingest_attachments on orch.kb), before it mints the task.  Uploads of  *)
(* the next message go on meanwhile, and the process may be killed between *)
(* any two statements.                                                     *)
(***************************************************************************)
EXTENDS Naturals, Sequences, SequencesExt, FiniteSets

CONSTANTS
  Stems,       \* names of files, without the suffix "_attached"
  Texts,       \* contents
  Unreadable,  \* contents of which no text can be extracted
  MaxFiles     \* bound: files of one message

NoText == "none"

ASSUME LibraryAssumption ==
  /\ NoText \notin Texts /\ Unreadable \subseteq Texts
  /\ MaxFiles \in Nat \ {0}

(* A file is a stem with "_attached" appended so many times; the names a   *)
(* user gives have it at most once.                                        *)
Files == Stems \X (0..2)
Names == Stems \X (0..1)
Attachments == [name : Names, text : Texts]
Messages ==
  {m \in BoundedSeq(Attachments, MaxFiles) :
     \A j, k \in DOMAIN m : m[j].name = m[k].name => j = k}

Docs == [uri : Files, text : Texts]   \* the id of a document is its text's hash

VARIABLES
  folder,   \* the session's folder
  send,     \* the call of send() in flight
  docs,     \* the persistent library, as committed
  tx,       \* the library as its connection sees it, uncommitted writes included
  run       \* the run thread
vars == <<folder, send, docs, tx, run>>

Idle == [pc |-> "idle", batch |-> <<>>, saved |-> <<>>]
Free == [pc |-> "free", atts |-> <<>>, i |-> 1, own |-> {},
         read |-> [f \in Files |-> NoText], moved |-> FALSE]

SendType ==
  [pc : {"idle", "upload", "submit"}, batch : Messages,
   saved : BoundedSeq(Files, MaxFiles)]

RunType ==
  [pc : {"free", "own", "shared", "inserting", "committing", "driving"},
   atts : BoundedSeq(Files, MaxFiles), i : Nat \ {0}, own : SUBSET Docs,
   read : [Files -> Texts \union {NoText}], moved : BOOLEAN]

TypeOK ==
  /\ folder \in [Files -> Texts \union {NoText}]
  /\ send \in SendType /\ run \in RunType /\ run.i <= Len(run.atts) + 1
  /\ docs \subseteq Docs /\ tx \subseteq Docs

Init ==
  /\ folder \in [Files -> Texts \union {NoText}]
  /\ \A f \in Files : f[2] > 0 => folder[f] = NoText
  /\ send = Idle
  /\ docs = {} /\ tx = {} /\ run = Free

(***************************************************************************)
(* The composer: a message with files of different names (addFiles) is     *)
(* sent; one that was refused or failed is sent again as any later one is.       *)
(***************************************************************************)
Send(m) ==
  /\ send.pc = "idle"
  /\ send' = [pc |-> IF m = <<>> THEN "submit" ELSE "upload", batch |-> m, saved |-> <<>>]
  /\ UNCHANGED <<folder, docs, tx, run>>

(* save_attachments, one file at a time; a name that is taken gets the     *)
(* suffix, and that name is taken without a look.                          *)
\* the suffix is added once more when that name is taken as well
SaveAsAgain(n) ==
  IF folder[n] = NoText THEN n
  ELSE IF folder[<<n[1], n[2] + 1>>] = NoText THEN <<n[1], n[2] + 1>>
  ELSE <<n[1], n[2] + 2>>
SaveAs(n) == IF folder[n] = NoText THEN n ELSE <<n[1], n[2] + 1>>

Uploaded(s) == IF s.batch = <<>> THEN [s EXCEPT !.pc = "submit"] ELSE s

\* a file comes to hold a text, under the eyes of a run it may belong to
PutText(f, text) ==
  /\ folder' = [folder EXCEPT ![f] = text]
  /\ run' = [run EXCEPT !.moved = @ \/ f \in ToSet(run.atts)]

SaveFile ==
  /\ send.pc = "upload"
  /\ LET a == Head(send.batch)
         f == SaveAs(a.name) IN
     /\ PutText(f, a.text)
     /\ send' = Uploaded([send EXCEPT !.batch = Tail(@), !.saved = Append(@, f)])
  /\ UNCHANGED <<docs, tx>>

\* the file goes unlisted
Dropped == send' = Uploaded([send EXCEPT !.batch = Tail(@)])
\* the write fails, or is killed, with the file truncated or half written
SaveFails ==
  /\ send.pc = "upload"
  /\ \E text \in Texts : PutText(SaveAs(Head(send.batch).name), text)
  /\ Dropped
  /\ UNCHANGED <<docs, tx>>
\* not base64, empty, over the total size, or the file cannot be opened
SkipFile ==
  /\ send.pc = "upload"
  /\ Dropped
  /\ UNCHANGED <<folder, docs, tx, run>>

(* POST /api/tasks.                                                        *)
Submit ==
  /\ send.pc = "submit" /\ run.pc = "free"
  /\ run' = [Free EXCEPT !.pc = "own", !.atts = send.saved]
  /\ send' = Idle
  /\ UNCHANGED <<folder, docs, tx>>

\* a run is already in progress
Refuse ==
  /\ send.pc = "submit" /\ run.pc # "free"
  /\ send' = Idle
  /\ UNCHANGED <<folder, docs, tx, run>>

\* the connection is lost with an upload or a submission under way
SendFails ==
  /\ send.pc # "idle"
  /\ send' = Idle
  /\ UNCHANGED <<folder, docs, tx, run>>

(***************************************************************************)
(* The run thread.                                                         *)
(***************************************************************************)
More == run.i <= Len(run.atts)
Uri == run.atts[run.i]
Extractable == folder[Uri] \notin Unreadable
\* what ingest_text is given now
Given == [uri |-> Uri, text |-> folder[Uri]]
NextFile(r) == [r EXCEPT !.i = @ + 1]

\* an exception before the task is minted: the run is over, unlogged, and
\* what its connection had not committed is gone
Raises == run' = Free /\ tx' = docs /\ UNCHANGED docs

\* documents are kept side by side under the same uri
OthersAll(d, library) == library
(* What ingest_text keeps of a library; the hash of a text is its key, also *)
(* when the text comes under another name.                                 *)
Others(d, library) == {e \in library : e.uri # d.uri}
Taken(d, library) == \E e \in Others(d, library) : e.text = d.text

BuildKb ==
  /\ run.pc = "own" /\ More
  /\ IF ~Extractable THEN run' = NextFile(run) /\ UNCHANGED <<docs, tx>>
     ELSE IF Taken(Given, run.own) THEN Raises
     ELSE /\ run' = NextFile([run EXCEPT !.own = Others(Given, @) \union {Given}])
          /\ UNCHANGED <<docs, tx>>
  /\ UNCHANGED <<folder, send>>

\* wire_full_stack opens the persistent library in between
OpenKb ==
  /\ run.pc = "own" /\ ~More
  /\ run' = [run EXCEPT !.pc = "shared", !.i = 1]
  /\ UNCHANGED <<folder, send, docs, tx>>

\* a name that is known is not looked at again
KnownByName(d) == \E e \in docs : e.uri = d.uri
Known(d) == d \in docs

\* the deletions of the documents at this uri
Supersede ==
  /\ run.pc = "shared" /\ More
  /\ IF Extractable
     THEN LET r == [run EXCEPT !.read[Uri] = Given.text] IN
          IF Known(Given) THEN run' = NextFile(r) /\ UNCHANGED tx
          ELSE run' = [r EXCEPT !.pc = "inserting"] /\ tx' = Others(Given, docs)
     ELSE run' = NextFile(run) /\ UNCHANGED tx
  /\ UNCHANGED <<folder, send, docs>>

Inserted == [uri |-> Uri, text |-> run.read[Uri]]

\* the failure ends a transaction that is committed
InsertOrCommit ==
  /\ run.pc = "inserting"
  /\ IF \E e \in tx : e.text = Inserted.text THEN run' = Free /\ docs' = tx /\ UNCHANGED tx
     ELSE /\ tx' = tx \union {Inserted}
          /\ run' = [run EXCEPT !.pc = "committing"]
          /\ UNCHANGED docs
  /\ UNCHANGED <<folder, send>>
\* the failure is taken for a document that is there already
InsertOrIgnore ==
  /\ run.pc = "inserting"
  /\ tx' = IF \E e \in tx : e.text = Inserted.text THEN tx ELSE tx \union {Inserted}
  /\ run' = [run EXCEPT !.pc = "committing"]
  /\ UNCHANGED <<folder, send, docs>>
\* the primary key of document is the hash of the text: IntegrityError
Insert ==
  /\ run.pc = "inserting"
  /\ IF \E e \in tx : e.text = Inserted.text THEN Raises
     ELSE /\ tx' = tx \union {Inserted}
          /\ run' = [run EXCEPT !.pc = "committing"]
          /\ UNCHANGED docs
  /\ UNCHANGED <<folder, send>>

Commit ==
  /\ run.pc = "committing"
  /\ docs' = tx /\ UNCHANGED tx
  /\ run' = NextFile([run EXCEPT !.pc = "shared"])
  /\ UNCHANGED <<folder, send>>

\* REQUEST is logged and the task driven
StartTask ==
  /\ run.pc = "shared" /\ ~More
  /\ run' = [run EXCEPT !.pc = "driving"]
  /\ UNCHANGED <<folder, send, docs, tx>>

EndTask ==
  /\ run.pc = "driving"
  /\ run' = Free
  /\ UNCHANGED <<folder, send, docs, tx>>

\* any other exception of the preparation, a Stop included
PrepareFails ==
  /\ run.pc \notin {"free", "driving"}
  /\ Raises
  /\ UNCHANGED <<folder, send>>

\* the process of server and run dies
Kill ==
  /\ Raises
  /\ send' = Idle
  /\ UNCHANGED folder

Composer ==
  \/ \E m \in Messages : Send(m)
  \/ SaveFile \/ SaveFails \/ SkipFile \/ Submit \/ Refuse \/ SendFails
Thread ==
  \/ BuildKb \/ OpenKb \/ Supersede \/ Insert \/ Commit \/ StartTask \/ EndTask
  \/ PrepareFails
Next == Composer \/ Thread \/ Kill
Spec == Init /\ [][Next]_vars

(***************************************************************************)
(* Properties.                                                             *)
(***************************************************************************)
(* At every moment the committed library has one text per name and one     *)
(* name per text: superseding and inserting are one transaction, so        *)
(* neither a kill nor a failed insert leaves half of them.                 *)
LibraryIsKeyed ==
  \A d, e \in docs : (d.uri = e.uri \/ d.text = e.text) => d = e

(* A task is minted only when the library holds, under its name, the text  *)
(* last read of every document attached to the message                     *)
(* (runner.py:258-266: a follow-up is grounded on the attachment too).     *)
StartedIsGrounded ==
  run.pc = "driving" =>
    \A f \in ToSet(run.atts) :
      run.read[f] # NoText => [uri |-> f, text |-> run.read[f]] \in docs

(* The throwaway library a draft is grounded on and the persistent one its *)
(* follow-ups are grounded on agree on every attachment, unless a later    *)
(* upload overwrote one of the files between the two readings.             *)
TurnsAgree == (run.pc = "driving" /\ ~run.moved) => run.own \subseteq docs

(* A document leaves the library only for a newer text of the same name,   *)
(* whatever raises between its deletion and the commit.                    *)
DocumentsOutliveRuns ==
  [][\A d \in docs : d \in docs' \/ \E e \in docs' : e.uri = d.uri]_vars

(***************************************************************************)
(* The invariant behind them: what holds between any two statements.       *)
(***************************************************************************)
Writing == run.pc \in {"inserting", "committing"}

\* every file a message or a run names is there, and fits the bound
UploadInv ==
  /\ send.pc = "upload" => send.batch # <<>>
  /\ Len(send.saved) + Len(send.batch) <= MaxFiles
  /\ \A f \in ToSet(send.saved) \union ToSet(run.atts) : folder[f] \in Texts

\* what is not committed yet is one document put in the place of its name
TransactionInv ==
  /\ ~Writing => tx = docs
  /\ Writing => More /\ run.read[Uri] \in Texts
  /\ run.pc = "inserting" => tx = Others(Inserted, docs)
  /\ run.pc = "committing" =>
       tx = Others(Inserted, docs) \union {Inserted} /\ ~Taken(Inserted, docs)

\* what the run has read is in the library, the document being written apart
GroundedInv ==
  \A f \in Files :
    run.read[f] # NoText /\ (Writing => f # Uri) =>
      [uri |-> f, text |-> run.read[f]] \in docs

\* until a file is overwritten both readings find what the folder holds
AgreeInv ==
  ~run.moved =>
    /\ \A e \in run.own :
         e.uri \in ToSet(run.atts) /\ e.text = folder[e.uri] /\ e.text \notin Unreadable
    /\ Writing => run.read[Uri] = folder[Uri]
    /\ Writing \/ run.pc = "shared" =>
         \A j \in 1..(run.i - 1) :
           folder[run.atts[j]] \notin Unreadable =>
             [uri |-> run.atts[j], text |-> folder[run.atts[j]]] \in docs

LibraryInv ==
  /\ TypeOK /\ UploadInv /\ TransactionInv /\ GroundedInv /\ AgreeInv
  /\ LibraryIsKeyed /\ TurnsAgree
=============================================================================
